---- MODULE Spec2Model ----
(***************************************************************************)
(* cloudknot/aws/base_classes.py: the configuration resolvers over the     *)
(* cloudknot config file, the module-level registry of boto3 clients, the  *)
(* NamedObject hierarchy and the two wait loops.                           *)
(***************************************************************************)
EXTENDS Integers, Sequences, FiniteSets, TLC

VARIABLES
    store,      \* the [aws] section of the cloudknot config file: option -> value
    env,        \* os.environ, the variables the resolvers read
    awsFiles,   \* ~/.aws/credentials and ~/.aws/config as the resolvers read them
    clients,    \* the module-level dictionary clients: service -> client handle
    lock,       \* the owner of rlock
    pc,         \* per thread: where it is in the call it runs
    loc,        \* per thread: the local variables of that call
    res,        \* per thread: the outcome of the call it completed last
    obj,        \* per thread: the NamedObject it holds
    ecrRepos,   \* ECR: the repositories of the account
    s3Buckets,  \* S3: the buckets the account owns
    iamPolicies,\* IAM: policy name -> its versions, oldest first
    uuids,      \* the number of uuid.uuid4() calls made so far
    requests,   \* the requests the last call sent to ECR, S3 and IAM, in order
    program,    \* the getters the caller's program works with
    pinned,     \* per getter: what its calls returned since it first wrote
    seen        \* per thread: the (region, profile) pairs the resolvers
                \* held while the thread constructed its object

\* the state held by the AWS services and the uuid generator
cloud == <<ecrRepos, s3Buckets, iamPolicies, uuids, requests>>

\* what is recorded about the caller's getters, and about the caller
getters == <<program, pinned>>
history == <<program, pinned, seen>>

vars == <<store, env, awsFiles, clients, lock, pc, loc, res, obj, cloud,
          history>>

----------------------------------------------------------------------------
(* Values *)

Absent == "<absent>"    \* has_option is false / KeyError on os.environ
PyNone == "<None>"      \* Python's None

Threads == {"t1", "t2"}
MainThread == "t1"
NoOwner == "<free>"

Options == {"region", "profile", "configured", "ecr-repo",
            "s3-bucket", "s3-bucket-policy", "s3-sse"}

Services == {"iam", "ec2", "batch", "ecr", "ecs", "s3"}
\* the order in which a rebuild assigns the entries
ServiceOrder == <<"iam", "ec2", "batch", "ecr", "ecs", "s3">>

\* RegionName of every entry describe_regions returns
RegionNames == {"us-east-1", "us-west-2", "eu-west-1"}
\* arguments callers pass to set_region
RegionArgs == {"us-east-1", "us-west-2", "mars-1"}
\* arguments callers pass to set_profile
ProfileArgs == {"default", "p1", "ghost"}
\* arguments callers pass to refresh_clients
PoolArgs == {10, 20}

\* The local provider files: section names of the credentials file, section
\* names of the config file as s.split() sees them, and the region option of
\* the config file's [default] section.
AwsFileChoices ==
    { [cred |-> {"default", "p1"}, conf |-> {<<"default">>},
       region |-> "eu-west-1"],
      [cred |-> {}, conf |-> {<<"default">>, <<"profile", "p1">>},
       region |-> "eu-west-1"],
      [cred |-> {}, conf |-> {<<"profile", "p1">>, <<"profile", "a", "b">>},
       region |-> Absent] }

EnvValues(v) ==
    CASE v = "AWS_DEFAULT_REGION" -> {Absent, "us-west-2"}
      [] v = "AWS_PROFILE" -> {Absent, "p1"}
      [] v = "CLOUDKNOT_S3_BUCKET" -> {Absent, "env-bucket"}
      [] v = "CLOUDKNOT_ECR_REPO" -> {Absent, "env-repo"}
EnvVars == {"AWS_DEFAULT_REGION", "AWS_PROFILE",
            "CLOUDKNOT_S3_BUCKET", "CLOUDKNOT_ECR_REPO"}

EmptyStore == [o \in Options |-> Absent]
NoEnv == [v \in EnvVars |-> Absent]

NoRes == [op |-> "none", arg |-> PyNone, out |-> "none", ret |-> PyNone]
NoLoc == [name |-> PyNone, region |-> PyNone, profile |-> PyNone,
          pool |-> 0, i |-> 0, config |-> EmptyStore, fallback |-> PyNone,
          max_wait_time |-> 0, num_waits |-> 0, responses |-> <<>>]
NoObj == [name |-> PyNone, clobbered |-> FALSE, region |-> PyNone,
          profile |-> PyNone, memory |-> 0, username |-> PyNone]

\* the four getters, and the record of one that has not written yet
Getters == {"get_region", "get_profile", "get_ecr_repo", "get_s3_params"}
\* no thread is constructing an object
NoPairs == [t \in Threads |-> {}]
Unpinned == [set |-> FALSE, first |-> Absent, last |-> Absent,
             names |-> 0, changed |-> FALSE, later |-> FALSE]

\* an IAM account without customer managed policies
NoPolicies == [p \in {} |-> <<>>]

Result(op, arg, out, ret) == [op |-> op, arg |-> arg, out |-> out, ret |-> ret]

----------------------------------------------------------------------------
(* The resolvers, as functions of the config file and the environment *)

\* list_profiles().profile_names
list_profiles(files) ==
    {s[2] : s \in {c \in files.conf : Len(c) = 2 /\ c[1] = "profile"}}
        \cup files.cred

\* get_region() that returns what it resolved without writing it
get_region_NoWriteBack(st, ev, files) ==
    IF st["region"] # Absent
    THEN [ret |-> st["region"], store |-> st]
    ELSE LET region ==
                 IF ev["AWS_DEFAULT_REGION"] # Absent
                 THEN ev["AWS_DEFAULT_REGION"]
                 ELSE IF files.region # Absent THEN files.region
                      ELSE "us-east-1"
         IN [ret |-> region, store |-> st]

\* get_region() that consults AWS_DEFAULT_REGION before the config file
get_region_EnvFirst(st, ev, files) ==
    IF ev["AWS_DEFAULT_REGION"] # Absent
    THEN [ret |-> ev["AWS_DEFAULT_REGION"],
          store |-> [st EXCEPT !["region"] = ev["AWS_DEFAULT_REGION"]]]
    ELSE IF st["region"] # Absent
         THEN [ret |-> st["region"], store |-> st]
         ELSE LET region == IF files.region # Absent THEN files.region
                            ELSE "us-east-1"
              IN [ret |-> region, store |-> [st EXCEPT !["region"] = region]]

\* get_region(): the value returned and the config file it leaves
get_region(st, ev, files) ==
    IF st["region"] # Absent
    THEN [ret |-> st["region"], store |-> st]
    ELSE LET region ==
                 IF ev["AWS_DEFAULT_REGION"] # Absent
                 THEN ev["AWS_DEFAULT_REGION"]
                 ELSE IF files.region # Absent THEN files.region
                      ELSE "us-east-1"
         IN [ret |-> region, store |-> [st EXCEPT !["region"] = region]]

\* get_profile(fallback) that writes the fallback it returns
get_profile_PersistFallback(st, ev, files, fallback) ==
    IF st["profile"] # Absent
    THEN [ret |-> st["profile"], store |-> st]
    ELSE LET profile ==
                 IF ev["AWS_PROFILE"] # Absent THEN ev["AWS_PROFILE"]
                 ELSE IF "default" \in list_profiles(files) THEN "default"
                 ELSE fallback
         IN [ret |-> profile, store |-> [st EXCEPT !["profile"] = profile]]

\* get_profile(fallback): the value returned and the config file it leaves
get_profile(st, ev, files, fallback) ==
    IF st["profile"] # Absent
    THEN [ret |-> st["profile"], store |-> st]
    ELSE IF ev["AWS_PROFILE"] # Absent
         THEN [ret |-> ev["AWS_PROFILE"],
               store |-> [st EXCEPT !["profile"] = ev["AWS_PROFILE"]]]
         ELSE IF "default" \in list_profiles(files)
              THEN [ret |-> "default",
                    store |-> [st EXCEPT !["profile"] = "default"]]
              ELSE [ret |-> fallback, store |-> st]

\* session.client(service, region_name=region, config=boto_config)
Client(region, profile, pool) ==
    [region |-> region, profile |-> profile, pool |-> pool]

\* botocore's max_pool_connections when a client is built without a config
DefaultMaxPool == 10

----------------------------------------------------------------------------
(* The module-level clients dictionary, built at import *)

ImportedStore(st, ev, files) ==
    get_region(get_profile(st, ev, files, PyNone).store, ev, files).store

ImportedClients(st, ev, files) ==
    [s \in Services |->
        Client(get_region(ImportedStore(st, ev, files), ev, files).ret,
               get_profile(st, ev, files, PyNone).ret,
               DefaultMaxPool)]

\* config files found at import, with the configured option among flags
PreStores(flags) ==
    {[EmptyStore EXCEPT !["region"] = r, !["profile"] = p, !["configured"] = c] :
        r \in {Absent, "us-west-2"}, p \in {Absent, "p1"}, c \in flags}

\* the process after `import cloudknot`
Imported(flags) ==
    /\ awsFiles \in AwsFileChoices
    /\ env \in {[NoEnv EXCEPT !["AWS_DEFAULT_REGION"] = r, !["AWS_PROFILE"] = p] :
                  r \in EnvValues("AWS_DEFAULT_REGION"),
                  p \in EnvValues("AWS_PROFILE")}
    /\ \E st \in PreStores(flags) :
          /\ store = ImportedStore(st, env, awsFiles)
          /\ clients = ImportedClients(st, env, awsFiles)
    /\ lock = NoOwner
    /\ pc = [t \in Threads |-> "idle"]
    /\ loc = [t \in Threads |-> NoLoc]
    /\ res = [t \in Threads |-> NoRes]
    /\ obj = [t \in Threads |-> NoObj]
    /\ ecrRepos = {}
    /\ s3Buckets = {}
    /\ iamPolicies = NoPolicies
    /\ uuids = 0
    /\ requests = <<>>
    /\ program = {}
    /\ pinned = [g \in Getters |-> Unpinned]
    /\ seen = NoPairs

Init == Imported({"True"})

----------------------------------------------------------------------------
(* os.environ changes between calls *)

SetEnv(v, x) ==
    /\ x \in EnvValues(v)
    /\ env[v] # x
    /\ env' = [env EXCEPT ![v] = x]
    /\ UNCHANGED <<store, awsFiles, clients, lock, pc, loc, res, obj, cloud>>

----------------------------------------------------------------------------
(* set_region *)

\* set_region with the region written before it is validated
set_region_validate_WriteFirst(t, region) ==
    /\ pc[t] = "idle"
    /\ IF region \notin RegionNames
       THEN /\ res' = [res EXCEPT ![t] =
                        Result("set_region", region, "CloudknotInputError", PyNone)]
            /\ store' = [store EXCEPT !["region"] = region]
            /\ UNCHANGED <<pc, loc>>
       ELSE /\ pc' = [pc EXCEPT ![t] = "set_region_store"]
            /\ loc' = [loc EXCEPT ![t] = [NoLoc EXCEPT !.region = region]]
            /\ res' = [res EXCEPT ![t] = NoRes]
            /\ UNCHANGED store
    /\ UNCHANGED <<env, awsFiles, clients, lock, obj, cloud>>

\* describe_regions through the ec2 client, and the membership test
set_region_validate(t, region) ==
    /\ pc[t] = "idle"
    /\ IF region \notin RegionNames
       THEN /\ res' = [res EXCEPT ![t] =
                        Result("set_region", region, "CloudknotInputError", PyNone)]
            /\ UNCHANGED <<pc, loc>>
       ELSE /\ pc' = [pc EXCEPT ![t] = "set_region_store"]
            /\ loc' = [loc EXCEPT ![t] = [NoLoc EXCEPT !.region = region]]
            /\ res' = [res EXCEPT ![t] = NoRes]
    /\ UNCHANGED <<store, env, awsFiles, clients, lock, obj, cloud>>

\* with rlock: write the region, read max_pool, open the session
set_region_store(t) ==
    /\ pc[t] = "set_region_store"
    /\ lock = NoOwner
    /\ lock' = t
    /\ LET written == [store EXCEPT !["region"] = loc[t].region]
           prof == get_profile(written, env, awsFiles, PyNone)
       IN /\ store' = prof.store
          /\ loc' = [loc EXCEPT ![t] = [NoLoc EXCEPT !.region = loc[t].region,
                                                     !.profile = prof.ret,
                                                     !.pool = clients["iam"].pool,
                                                     !.i = 1]]
    /\ pc' = [pc EXCEPT ![t] = "set_region_clients"]
    /\ UNCHANGED <<env, awsFiles, clients, res, obj, cloud>>

\* clients[service] = session.client(service, region_name=region, ...);
\* leaving the with block after the last one
set_region_clients(t) ==
    /\ pc[t] = "set_region_clients"
    /\ clients' = [clients EXCEPT ![ServiceOrder[loc[t].i]] =
                     Client(loc[t].region, loc[t].profile, loc[t].pool)]
    /\ IF loc[t].i < Len(ServiceOrder)
       THEN /\ loc' = [loc EXCEPT ![t].i = @ + 1]
            /\ UNCHANGED <<pc, res, lock>>
       ELSE /\ loc' = [loc EXCEPT ![t] = NoLoc]
            /\ pc' = [pc EXCEPT ![t] = "idle"]
            /\ res' = [res EXCEPT ![t] =
                        Result("set_region", loc[t].region, "ok", PyNone)]
            /\ lock' = NoOwner
    /\ UNCHANGED <<store, env, awsFiles, obj, cloud>>

----------------------------------------------------------------------------
(* set_profile *)

\* set_profile without the membership test
set_profile_validate_Unchecked(t, profile_name) ==
    /\ pc[t] = "idle"
    /\ pc' = [pc EXCEPT ![t] = "set_profile_store"]
    /\ loc' = [loc EXCEPT ![t] = [NoLoc EXCEPT !.profile = profile_name]]
    /\ res' = [res EXCEPT ![t] = NoRes]
    /\ UNCHANGED <<store, env, awsFiles, clients, lock, obj, cloud>>

\* list_profiles() and the membership test
set_profile_validate(t, profile_name) ==
    /\ pc[t] = "idle"
    /\ IF profile_name \notin list_profiles(awsFiles)
       THEN /\ res' = [res EXCEPT ![t] =
                        Result("set_profile", profile_name,
                               "CloudknotInputError", PyNone)]
            /\ UNCHANGED <<pc, loc>>
       ELSE /\ pc' = [pc EXCEPT ![t] = "set_profile_store"]
            /\ loc' = [loc EXCEPT ![t] = [NoLoc EXCEPT !.profile = profile_name]]
            /\ res' = [res EXCEPT ![t] = NoRes]
    /\ UNCHANGED <<store, env, awsFiles, clients, lock, obj, cloud>>

\* set_profile that rebuilds the registry but never writes the config file
set_profile_store_NoWrite(t) ==
    /\ pc[t] = "set_profile_store"
    /\ lock = NoOwner
    /\ lock' = t
    /\ loc' = [loc EXCEPT ![t] = [NoLoc EXCEPT !.profile = loc[t].profile,
                                               !.pool = clients["iam"].pool,
                                               !.i = 1]]
    /\ pc' = [pc EXCEPT ![t] = "set_profile_clients"]
    /\ UNCHANGED <<store, env, awsFiles, clients, res, obj, cloud>>

\* with rlock: write the profile, read max_pool, open the session
set_profile_store(t) ==
    /\ pc[t] = "set_profile_store"
    /\ lock = NoOwner
    /\ lock' = t
    /\ store' = [store EXCEPT !["profile"] = loc[t].profile]
    /\ loc' = [loc EXCEPT ![t] = [NoLoc EXCEPT !.profile = loc[t].profile,
                                               !.pool = clients["iam"].pool,
                                               !.i = 1]]
    /\ pc' = [pc EXCEPT ![t] = "set_profile_clients"]
    /\ UNCHANGED <<env, awsFiles, clients, res, obj, cloud>>

\* clients[service] = session.client(service, region_name=get_region(), ...)
set_profile_clients(t) ==
    /\ pc[t] = "set_profile_clients"
    /\ LET reg == get_region(store, env, awsFiles)
       IN /\ store' = reg.store
          /\ clients' = [clients EXCEPT ![ServiceOrder[loc[t].i]] =
                           Client(reg.ret, loc[t].profile, loc[t].pool)]
    /\ IF loc[t].i < Len(ServiceOrder)
       THEN /\ loc' = [loc EXCEPT ![t].i = @ + 1]
            /\ UNCHANGED <<pc, res, lock>>
       ELSE /\ loc' = [loc EXCEPT ![t] = NoLoc]
            /\ pc' = [pc EXCEPT ![t] = "idle"]
            /\ res' = [res EXCEPT ![t] =
                        Result("set_profile", loc[t].profile, "ok", PyNone)]
            /\ lock' = NoOwner
    /\ UNCHANGED <<env, awsFiles, obj, cloud>>

----------------------------------------------------------------------------
(* refresh_clients *)

\* with rlock: the Config and the session
refresh_clients_session(t, max_pool) ==
    /\ pc[t] = "idle"
    /\ lock = NoOwner
    /\ lock' = t
    /\ LET prof == get_profile(store, env, awsFiles, PyNone)
       IN /\ store' = prof.store
          /\ loc' = [loc EXCEPT ![t] = [NoLoc EXCEPT !.profile = prof.ret,
                                                     !.pool = max_pool,
                                                     !.i = 1]]
    /\ pc' = [pc EXCEPT ![t] = "refresh_clients"]
    /\ res' = [res EXCEPT ![t] = NoRes]
    /\ UNCHANGED <<env, awsFiles, clients, obj, cloud, history>>

refresh_clients_clients(t) ==
    /\ pc[t] = "refresh_clients"
    /\ LET reg == get_region(store, env, awsFiles)
       IN /\ store' = reg.store
          /\ clients' = [clients EXCEPT ![ServiceOrder[loc[t].i]] =
                           Client(reg.ret, loc[t].profile, loc[t].pool)]
    /\ IF loc[t].i < Len(ServiceOrder)
       THEN /\ loc' = [loc EXCEPT ![t].i = @ + 1]
            /\ UNCHANGED <<pc, res, lock>>
       ELSE /\ pc' = [pc EXCEPT ![t] = "idle"]
            /\ res' = [res EXCEPT ![t] =
                        Result("refresh_clients", loc[t].pool, "ok", PyNone)]
            /\ loc' = [loc EXCEPT ![t] = NoLoc]
            /\ lock' = NoOwner
    /\ UNCHANGED <<env, awsFiles, obj, cloud, history>>

----------------------------------------------------------------------------
(* A poll of wait_for_compute_environment / wait_for_job_queue: the thread  *)
(* takes clients['batch'] and calls describe on it, outside rlock.          *)

describe_batch(t) ==
    /\ pc[t] = "idle"
    /\ res' = [res EXCEPT ![t] =
                 Result("describe", "batch", "ok", clients["batch"])]
    /\ UNCHANGED <<store, env, awsFiles, clients, lock, pc, loc, obj, cloud, history>>

----------------------------------------------------------------------------
(* get_region and get_profile called on their own: one hold of rlock each *)

get_region_call(t) ==
    /\ pc[t] = "idle"
    /\ lock = NoOwner
    /\ LET reg == get_region(store, env, awsFiles)
       IN /\ store' = reg.store
          /\ res' = [res EXCEPT ![t] = Result("get_region", PyNone, "ok", reg.ret)]
    /\ UNCHANGED <<env, awsFiles, clients, lock, pc, loc, obj, cloud>>

get_profile_call(t, fallback) ==
    /\ pc[t] = "idle"
    /\ lock = NoOwner
    /\ LET prof == get_profile(store, env, awsFiles, fallback)
       IN /\ store' = prof.store
          /\ res' = [res EXCEPT ![t] =
                       Result("get_profile", fallback, "ok", prof.ret)]
    /\ UNCHANGED <<env, awsFiles, clients, lock, pc, loc, obj, cloud>>

----------------------------------------------------------------------------
(* get_region and get_profile as other threads see them: the thread enters *)
(* the with block and reads the config file into its ConfigParser, then    *)
(* resolves the value from what it read, writes the parser back to the     *)
(* file if it set the option, and leaves the block.                        *)

\* get_profile reading the config file without entering rlock
get_profile_read_Unlocked(t, fallback) ==
    /\ pc[t] = "idle"
    /\ loc' = [loc EXCEPT ![t] = [NoLoc EXCEPT !.config = store,
                                               !.fallback = fallback]]
    /\ pc' = [pc EXCEPT ![t] = "get_profile_write"]
    /\ res' = [res EXCEPT ![t] = NoRes]
    /\ UNCHANGED <<store, env, awsFiles, clients, lock, obj, cloud>>

\* with rlock: config.read(config_file)
get_profile_read(t, fallback) ==
    /\ pc[t] = "idle"
    /\ lock = NoOwner
    /\ lock' = t
    /\ loc' = [loc EXCEPT ![t] = [NoLoc EXCEPT !.config = store,
                                               !.fallback = fallback]]
    /\ pc' = [pc EXCEPT ![t] = "get_profile_write"]
    /\ res' = [res EXCEPT ![t] = NoRes]
    /\ UNCHANGED <<store, env, awsFiles, clients, obj, cloud>>

\* the rest of the with block: the parser is written only if the option
\* was set in it
get_profile_write(t) ==
    /\ pc[t] = "get_profile_write"
    /\ LET prof == get_profile(loc[t].config, env, awsFiles, loc[t].fallback)
       IN /\ store' = IF prof.store # loc[t].config THEN prof.store ELSE store
          /\ res' = [res EXCEPT ![t] =
                       Result("get_profile", loc[t].fallback, "ok", prof.ret)]
    /\ lock' = NoOwner
    /\ pc' = [pc EXCEPT ![t] = "idle"]
    /\ loc' = [loc EXCEPT ![t] = NoLoc]
    /\ UNCHANGED <<env, awsFiles, clients, obj, cloud>>

\* with rlock: config.read(config_file)
get_region_read(t) ==
    /\ pc[t] = "idle"
    /\ lock = NoOwner
    /\ lock' = t
    /\ loc' = [loc EXCEPT ![t] = [NoLoc EXCEPT !.config = store]]
    /\ pc' = [pc EXCEPT ![t] = "get_region_write"]
    /\ res' = [res EXCEPT ![t] = NoRes]
    /\ UNCHANGED <<store, env, awsFiles, clients, obj, cloud>>

\* the rest of the with block
get_region_write(t) ==
    /\ pc[t] = "get_region_write"
    /\ LET reg == get_region(loc[t].config, env, awsFiles)
       IN /\ store' = IF reg.store # loc[t].config THEN reg.store ELSE store
          /\ res' = [res EXCEPT ![t] =
                       Result("get_region", PyNone, "ok", reg.ret)]
    /\ lock' = NoOwner
    /\ pc' = [pc EXCEPT ![t] = "idle"]
    /\ loc' = [loc EXCEPT ![t] = NoLoc]
    /\ UNCHANGED <<env, awsFiles, clients, obj, cloud>>

----------------------------------------------------------------------------
(* NamedObject: ObjectWithArn and ObjectWithUsernameAndMemory construct it  *)
(* through super().__init__                                                 *)

\* names callers give their objects
ObjectNames == {"ce"}
\* the fallback callers of get_profile pass: the default, or None
Fallbacks == {"from-env", PyNone}

\* the guard testing only that the configured option is present
NamedObject_init_configured_OptionOnly(t, name) ==
    /\ pc[t] = "idle"
    /\ lock = NoOwner
    /\ IF store["configured"] = Absent
       THEN /\ res' = [res EXCEPT ![t] =
                        Result("NamedObject", name,
                               "CloudknotConfigurationError", PyNone)]
            /\ UNCHANGED <<pc, loc>>
       ELSE /\ pc' = [pc EXCEPT ![t] = "NamedObject_region"]
            /\ loc' = [loc EXCEPT ![t] = [NoLoc EXCEPT !.name = name]]
            /\ res' = [res EXCEPT ![t] = NoRes]
    /\ UNCHANGED <<store, env, awsFiles, clients, lock, obj, cloud, getters>>

\* with rlock: read the config file and test the configured option
NamedObject_init_configured(t, name) ==
    /\ pc[t] = "idle"
    /\ lock = NoOwner
    /\ IF store["configured"] # "True"
       THEN /\ res' = [res EXCEPT ![t] =
                        Result("NamedObject", name,
                               "CloudknotConfigurationError", PyNone)]
            /\ UNCHANGED <<pc, loc>>
       ELSE /\ pc' = [pc EXCEPT ![t] = "NamedObject_region"]
            /\ loc' = [loc EXCEPT ![t] = [NoLoc EXCEPT !.name = name]]
            /\ res' = [res EXCEPT ![t] = NoRes]
    /\ UNCHANGED <<store, env, awsFiles, clients, lock, obj, cloud, getters>>

\* self._name, self._clobbered, self._region = get_region()
NamedObject_init_region(t) ==
    /\ pc[t] = "NamedObject_region"
    /\ lock = NoOwner
    /\ LET reg == get_region(store, env, awsFiles)
       IN /\ store' = reg.store
          /\ loc' = [loc EXCEPT ![t].region = reg.ret]
    /\ pc' = [pc EXCEPT ![t] = "NamedObject_profile"]
    /\ UNCHANGED <<env, awsFiles, clients, lock, res, obj, cloud, getters>>

\* self._profile = get_profile(); the constructor returns
NamedObject_init_profile(t) ==
    /\ pc[t] = "NamedObject_profile"
    /\ lock = NoOwner
    /\ LET prof == get_profile(store, env, awsFiles, "from-env")
       IN /\ store' = prof.store
          /\ obj' = [obj EXCEPT ![t] = [name |-> loc[t].name,
                                        clobbered |-> FALSE,
                                        region |-> loc[t].region,
                                        profile |-> prof.ret,
                                        memory |-> 0,
                                        username |-> PyNone]]
    /\ pc' = [pc EXCEPT ![t] = "idle"]
    /\ res' = [res EXCEPT ![t] = Result("NamedObject", loc[t].name, "ok", PyNone)]
    /\ loc' = [loc EXCEPT ![t] = NoLoc]
    /\ UNCHANGED <<env, awsFiles, clients, lock, cloud, getters>>

\* values callers pass as memory: the type, the integral part (for a str
\* the number its text denotes), whether the value has no fractional part
\* (for a str: whether the text is an integer literal), and the repr
MemoryArgs ==
    {[repr |-> "2", type |-> "int", trunc |-> 2, whole |-> TRUE],
     [repr |-> "1", type |-> "int", trunc |-> 1, whole |-> TRUE],
     [repr |-> "0", type |-> "int", trunc |-> 0, whole |-> TRUE],
     [repr |-> "-1", type |-> "int", trunc |-> -1, whole |-> TRUE],
     [repr |-> "2.5", type |-> "float", trunc |-> 2, whole |-> FALSE],
     [repr |-> "0.5", type |-> "float", trunc |-> 0, whole |-> FALSE],
     [repr |-> "3.0", type |-> "float", trunc |-> 3, whole |-> TRUE],
     [repr |-> "'4'", type |-> "str", trunc |-> 4, whole |-> TRUE],
     [repr |-> "'2.5'", type |-> "str", trunc |-> 2, whole |-> FALSE],
     [repr |-> "'abc'", type |-> "str", trunc |-> 0, whole |-> FALSE],
     [repr |-> "None", type |-> "NoneType", trunc |-> 0, whole |-> FALSE]}

\* int(memory): an int is itself, a float is truncated toward zero, a str
\* is parsed as an integer literal or raises ValueError, None raises
\* TypeError
int(memory) ==
    CASE memory.type = "int" -> [raised |-> "none", value |-> memory.trunc]
      [] memory.type = "float" -> [raised |-> "none", value |-> memory.trunc]
      [] memory.type = "str" ->
            IF memory.whole
            THEN [raised |-> "none", value |-> memory.trunc]
            ELSE [raised |-> "ValueError", value |-> 0]
      [] OTHER -> [raised |-> "TypeError", value |-> 0]

\* the constructor after super().__init__ returned: the memory test inside
\* try ... except ValueError, then self._username = str(username); an
\* exception leaves the caller without an object
ObjectWithUsernameAndMemory_init(t, memory, username) ==
    /\ pc[t] = "idle"
    /\ res[t].op = "NamedObject"
    /\ res[t].out = "ok"
    /\ LET mem == int(memory)
           out == IF mem.raised = "ValueError" THEN "CloudknotInputError"
                  ELSE IF mem.raised # "none" THEN mem.raised
                  ELSE IF mem.value < 1 THEN "CloudknotInputError"
                  ELSE "ok"
       IN /\ res' = [res EXCEPT ![t] =
                       Result("ObjectWithUsernameAndMemory", memory.repr,
                              out, PyNone)]
          /\ obj' = [obj EXCEPT ![t] =
                       IF out = "ok"
                       THEN [@ EXCEPT !.memory = mem.value,
                                      !.username = username]
                       ELSE NoObj]
    /\ UNCHANGED <<store, env, awsFiles, clients, lock, pc, loc, cloud, history>>

\* the body of check_profile, run for the call op
CheckProfile(t, op) ==
    /\ lock = NoOwner
    /\ LET prof == get_profile(store, env, awsFiles, "from-env")
       IN /\ store' = prof.store
          /\ res' = [res EXCEPT ![t] =
                       Result(op, PyNone,
                              IF obj[t].profile # prof.ret
                              THEN "ProfileException" ELSE "ok",
                              PyNone)]
    /\ pc' = [pc EXCEPT ![t] = "idle"]
    /\ UNCHANGED <<env, awsFiles, clients, lock, loc, obj, cloud, history>>

check_profile(t) ==
    /\ pc[t] = "idle"
    /\ obj[t] # NoObj
    /\ CheckProfile(t, "check_profile")

\* check_profile_and_region without the region test
check_profile_and_region_NoRegionTest(t) ==
    /\ pc[t] = "idle"
    /\ obj[t] # NoObj
    /\ lock = NoOwner
    /\ store' = get_region(store, env, awsFiles).store
    /\ res' = [res EXCEPT ![t] = NoRes]
    /\ pc' = [pc EXCEPT ![t] = "check_profile"]
    /\ UNCHANGED <<env, awsFiles, clients, lock, loc, obj, cloud, history>>

\* check_profile_and_region adopting the current region instead of raising
check_profile_and_region_AutoUpdate(t) ==
    /\ pc[t] = "idle"
    /\ obj[t] # NoObj
    /\ lock = NoOwner
    /\ LET reg == get_region(store, env, awsFiles)
       IN /\ store' = reg.store
          /\ obj' = [obj EXCEPT ![t].region = reg.ret]
    /\ res' = [res EXCEPT ![t] = NoRes]
    /\ pc' = [pc EXCEPT ![t] = "check_profile"]
    /\ UNCHANGED <<env, awsFiles, clients, lock, loc, cloud, history>>

\* if self.region != get_region(): raise RegionException
check_profile_and_region(t) ==
    /\ pc[t] = "idle"
    /\ obj[t] # NoObj
    /\ lock = NoOwner
    /\ LET reg == get_region(store, env, awsFiles)
       IN /\ store' = reg.store
          /\ IF obj[t].region # reg.ret
             THEN /\ res' = [res EXCEPT ![t] =
                               Result("check_profile_and_region", PyNone,
                                      "RegionException", PyNone)]
                  /\ UNCHANGED pc
             ELSE /\ res' = [res EXCEPT ![t] = NoRes]
                  /\ pc' = [pc EXCEPT ![t] = "check_profile"]
    /\ UNCHANGED <<env, awsFiles, clients, lock, loc, obj, cloud, history>>

\* self.check_profile() at the end of check_profile_and_region
check_profile_and_region_profile(t) ==
    /\ pc[t] = "check_profile"
    /\ CheckProfile(t, "check_profile_and_region")

----------------------------------------------------------------------------
(* wait_for_compute_environment and wait_for_job_queue *)

\* largest max_wait_time callers pass
MaxWaitTime == 2
WaitArgs == 0 .. MaxWaitTime

\* response.get('computeEnvironments') / response.get('jobQueues'): the
\* status of each entry the describe call returns
DescribeResponses == {<<>>, <<"CREATING">>, <<"UPDATING">>, <<"ACTIVE">>}

\* waiting = (response == [] or response[0]['status'] in [...])
StillWaiting(response) ==
    response = <<>> \/ response[1] \in {"CREATING", "UPDATING"}

\* waiting = True; num_waits = 0
WaitBegin(t, op, max_wait_time) ==
    /\ pc[t] = "idle"
    /\ pc' = [pc EXCEPT ![t] = op]
    /\ loc' = [loc EXCEPT ![t] = [NoLoc EXCEPT !.max_wait_time = max_wait_time]]
    /\ res' = [res EXCEPT ![t] = NoRes]
    /\ UNCHANGED <<store, env, awsFiles, clients, lock, obj, cloud, history>>

\* a poll whose timeout test is num_waits > max_wait_time + 1
WaitPoll_ExitLate(t, op, response) ==
    /\ pc[t] = op
    /\ LET num_waits == loc[t].num_waits + 1
           responses == Append(loc[t].responses, response)
           ret == [polls |-> num_waits, responses |-> responses]
       IN IF num_waits > loc[t].max_wait_time + 1
          THEN /\ pc' = [pc EXCEPT ![t] = "exited"]
               /\ res' = [res EXCEPT ![t] =
                           Result(op, loc[t].max_wait_time, "SystemExit", ret)]
               /\ loc' = [loc EXCEPT ![t] = NoLoc]
          ELSE IF StillWaiting(response)
               THEN /\ loc' = [loc EXCEPT ![t].num_waits = num_waits,
                                          ![t].responses = responses]
                    /\ UNCHANGED <<pc, res>>
               ELSE /\ pc' = [pc EXCEPT ![t] = "idle"]
                    /\ res' = [res EXCEPT ![t] =
                                Result(op, loc[t].max_wait_time, "ok", ret)]
                    /\ loc' = [loc EXCEPT ![t] = NoLoc]
    /\ UNCHANGED <<store, env, awsFiles, clients, lock, obj, cloud, history>>

\* a poll whose timeout test is num_waits >= max_wait_time
WaitPoll_ExitAtMax(t, op, response) ==
    /\ pc[t] = op
    /\ LET num_waits == loc[t].num_waits + 1
           responses == Append(loc[t].responses, response)
           ret == [polls |-> num_waits, responses |-> responses]
       IN IF num_waits >= loc[t].max_wait_time
          THEN /\ pc' = [pc EXCEPT ![t] = "exited"]
               /\ res' = [res EXCEPT ![t] =
                           Result(op, loc[t].max_wait_time, "SystemExit", ret)]
               /\ loc' = [loc EXCEPT ![t] = NoLoc]
          ELSE IF StillWaiting(response)
               THEN /\ loc' = [loc EXCEPT ![t].num_waits = num_waits,
                                          ![t].responses = responses]
                    /\ UNCHANGED <<pc, res>>
               ELSE /\ pc' = [pc EXCEPT ![t] = "idle"]
                    /\ res' = [res EXCEPT ![t] =
                                Result(op, loc[t].max_wait_time, "ok", ret)]
                    /\ loc' = [loc EXCEPT ![t] = NoLoc]
    /\ UNCHANGED <<store, env, awsFiles, clients, lock, obj, cloud, history>>

\* one turn of the while loop: describe through clients['batch'], set
\* waiting, sleep a second, count it, and sys.exit past max_wait_time
WaitPoll(t, op, response) ==
    /\ pc[t] = op
    /\ LET num_waits == loc[t].num_waits + 1
           responses == Append(loc[t].responses, response)
           ret == [polls |-> num_waits, responses |-> responses]
       IN IF num_waits > loc[t].max_wait_time
          THEN /\ pc' = [pc EXCEPT ![t] = "exited"]
               /\ res' = [res EXCEPT ![t] =
                           Result(op, loc[t].max_wait_time, "SystemExit", ret)]
               /\ loc' = [loc EXCEPT ![t] = NoLoc]
          ELSE IF StillWaiting(response)
               THEN /\ loc' = [loc EXCEPT ![t].num_waits = num_waits,
                                          ![t].responses = responses]
                    /\ UNCHANGED <<pc, res>>
               ELSE /\ pc' = [pc EXCEPT ![t] = "idle"]
                    /\ res' = [res EXCEPT ![t] =
                                Result(op, loc[t].max_wait_time, "ok", ret)]
                    /\ loc' = [loc EXCEPT ![t] = NoLoc]
    /\ UNCHANGED <<store, env, awsFiles, clients, lock, obj, cloud, history>>

wait_for_compute_environment(t, max_wait_time) ==
    WaitBegin(t, "wait_for_compute_environment", max_wait_time)

wait_for_compute_environment_poll(t, response) ==
    WaitPoll(t, "wait_for_compute_environment", response)

wait_for_job_queue(t, max_wait_time) ==
    WaitBegin(t, "wait_for_job_queue", max_wait_time)

wait_for_job_queue_poll(t, response) ==
    WaitPoll(t, "wait_for_job_queue", response)

----------------------------------------------------------------------------
(* The ECR repository and the S3 bucket with its access policy.  A world   *)
(* is the config file together with the state of ECR, S3, IAM and the      *)
(* uuid generator; each function maps the world it is called in to its     *)
(* outcome and the world it leaves.                                        *)

World == [store |-> store, repos |-> ecrRepos, buckets |-> s3Buckets,
          policies |-> iamPolicies, uuids |-> uuids, calls |-> <<>>]

\* a request the service answers with an error code
Refused(request, code) == request \o " -> " \o code

Outcome(out, ret, world) == [out |-> out, ret |-> ret, world |-> world]

\* str(uuid.uuid4()): a value no earlier call returned
uuid4(n) == "uuid" \o ToString(n)

\* getpass.getuser().lower()
User == "user"

\* set_ecr_repo creating the repository without asking whether it exists
set_ecr_repo_AlwaysCreate(w, repo) ==
    Outcome("ok", PyNone,
            [w EXCEPT !.store = [w.store EXCEPT !["ecr-repo"] = repo],
                      !.repos = w.repos \cup {repo},
                      !.calls = w.calls \o <<"ecr.create_repository">>])

\* with rlock: write the option, then describe_repositories and, on
\* RepositoryNotFoundException, create_repository
set_ecr_repo(w, repo) ==
    Outcome("ok", PyNone,
            [w EXCEPT !.store = [w.store EXCEPT !["ecr-repo"] = repo],
                      !.repos = w.repos \cup {repo},
                      !.calls = w.calls \o
                          (IF repo \in w.repos
                           THEN <<"ecr.describe_repositories">>
                           ELSE <<Refused("ecr.describe_repositories",
                                          "RepositoryNotFoundException"),
                                  "ecr.create_repository">>)])

\* get_ecr_repo preferring the environment variable to the stored option
get_ecr_repo_EnvFirst(w, ev) ==
    LET repo == IF ev["CLOUDKNOT_ECR_REPO"] # Absent
                THEN ev["CLOUDKNOT_ECR_REPO"]
                ELSE IF w.store["ecr-repo"] # Absent
                     THEN w.store["ecr-repo"]
                     ELSE "cloudknot"
    IN  Outcome("ok", repo, set_ecr_repo(w, repo).world)

\* with rlock: the stored option, else CLOUDKNOT_ECR_REPO, else 'cloudknot';
\* then set_ecr_repo(repo)
get_ecr_repo(w, ev) ==
    LET repo == IF w.store["ecr-repo"] # Absent
                THEN w.store["ecr-repo"]
                ELSE IF ev["CLOUDKNOT_ECR_REPO"] # Absent
                     THEN ev["CLOUDKNOT_ECR_REPO"]
                     ELSE "cloudknot"
    IN  Outcome("ok", repo, set_ecr_repo(w, repo).world)

\* the document whose second statement names the bucket, not its objects
bucket_policy_document_NoObjects(bucket) ==
    [ListBucket |-> "arn:aws:s3:::" \o bucket,
     PutGetObject |-> "arn:aws:s3:::" \o bucket]

\* the two Resource entries of the policy document
bucket_policy_document(bucket) ==
    [ListBucket |-> "arn:aws:s3:::" \o bucket,
     PutGetObject |-> "arn:aws:s3:::" \o bucket \o "/*"]

\* the number of versions IAM keeps of one managed policy
VersionLimit == 3

\* iam.create_policy_version(SetAsDefault=True)
create_policy_version(versions, doc) ==
    Append([i \in 1 .. Len(versions) |->
               [versions[i] EXCEPT !.IsDefaultVersion = FALSE]],
           [doc |-> doc, IsDefaultVersion |-> TRUE])

\* the versions without the one at position k
delete_policy_version(versions, k) ==
    [i \in 1 .. Len(versions) - 1 |->
        IF i < k THEN versions[i] ELSE versions[i + 1]]

\* update_s3_policy deleting the oldest version, default or not
update_s3_policy_DeleteOldest(policies, policy, bucket) ==
    IF policy \notin DOMAIN policies
    THEN [out |-> "IndexError", policies |-> policies,
          calls |-> <<"iam.list_policies">>]
    ELSE
    LET versions == policies[policy]
        doc == bucket_policy_document(bucket)
        full == <<"iam.list_policies",
                  Refused("iam.create_policy_version",
                          "LimitExceededException"),
                  "iam.list_policy_versions">>
    IN  IF Len(versions) < VersionLimit
        THEN [out |-> "ok",
              policies |-> [policies EXCEPT ![policy] =
                               create_policy_version(versions, doc)],
              calls |-> <<"iam.list_policies", "iam.create_policy_version">>]
        ELSE [out |-> "ok",
              policies |-> [policies EXCEPT ![policy] =
                  create_policy_version(
                      delete_policy_version(versions, 1), doc)],
              calls |-> full \o <<"iam.delete_policy_version",
                                  "iam.create_policy_version">>]

\* list_policies and the [0] of the name filter, then with rlock:
\* create_policy_version and, on LimitExceededException, delete the
\* oldest non-default version and create again; the versions of a policy
\* are kept in the order of their CreateDate
update_s3_policy(policies, policy, bucket) ==
    IF policy \notin DOMAIN policies
    THEN [out |-> "IndexError", policies |-> policies,
          calls |-> <<"iam.list_policies">>]
    ELSE
    LET versions == policies[policy]
        doc == bucket_policy_document(bucket)
        nondefault == {i \in 1 .. Len(versions) :
                          ~versions[i].IsDefaultVersion}
        oldest == CHOOSE i \in nondefault : \A j \in nondefault : i <= j
        full == <<"iam.list_policies",
                  Refused("iam.create_policy_version",
                          "LimitExceededException"),
                  "iam.list_policy_versions">>
    IN  IF Len(versions) < VersionLimit
        THEN [out |-> "ok",
              policies |-> [policies EXCEPT ![policy] =
                               create_policy_version(versions, doc)],
              calls |-> <<"iam.list_policies", "iam.create_policy_version">>]
        ELSE IF nondefault = {}
        THEN [out |-> "IndexError", policies |-> policies, calls |-> full]
        ELSE [out |-> "ok",
              policies |-> [policies EXCEPT ![policy] =
                  create_policy_version(
                      delete_policy_version(versions, oldest), doc)],
              calls |-> full \o <<"iam.delete_policy_version",
                                  "iam.create_policy_version">>]

\* bucket names S3 refuses, buckets of other accounts, and those of them
\* this account may put objects in and get objects from
InvalidBucketNames == {"Bad_Name"}
ForeignBuckets == {"shared-bucket", "private-bucket", "append-bucket"}
AccessibleBuckets == {"shared-bucket", "append-bucket"}
\* buckets whose objects this account may not delete
UndeletableBuckets == {"private-bucket", "append-bucket"}
\* the LocationConstraint values S3 refuses
RejectedLocations == {"us-east-1"}
NoConstraint == "<no constraint>"

\* s3.create_bucket: the error code of the response, or Created
create_bucket(buckets, bucket, constraint) ==
    IF bucket \in InvalidBucketNames THEN "InvalidBucketName"
    ELSE IF constraint \in RejectedLocations THEN "InvalidLocationConstraint"
    ELSE IF bucket \in buckets THEN "BucketAlreadyOwnedByYou"
    ELSE IF bucket \in ForeignBuckets THEN "BucketAlreadyExists"
    ELSE "Created"

\* test_bucket_put_get raising for every bucket of another account
test_bucket_put_get_Distrustful(bucket, sse) == FALSE

\* put_object and get_object of the test key succeed
test_bucket_put_get(bucket, sse) == bucket \in AccessibleBuckets

\* s3.delete_object of the test key succeeds
delete_object(bucket) == bucket \notin UndeletableBuckets

\* the request create_bucket as the log shows it
Answered(request, code) ==
    IF code = "Created" THEN request ELSE Refused(request, code)

\* the requests of test_bucket_put_get: put_object, get_object and
\* delete_object of the test key
ProbeCalls(bucket, sse) ==
    IF test_bucket_put_get(bucket, sse)
    THEN <<"s3.put_object", "s3.get_object",
           IF delete_object(bucket) THEN "s3.delete_object"
           ELSE Refused("s3.delete_object", "AccessDenied")>>
    ELSE <<Refused("s3.put_object", "AccessDenied")>>

\* the sse written as it is passed
str_Unconverted(sse) == sse

\* str(sse)
str(sse) == IF sse = PyNone THEN "None" ELSE sse


\* set_s3_params retrying create_bucket after every error of the first
set_s3_params_locked_RetryAlways(w, ev, files, bucket, policy, sse) ==
    LET config == [w.store EXCEPT !["s3-bucket"] = bucket]
        region == get_region(w.store, ev, files)
        raised == [w EXCEPT !.store = region.store]
        first == create_bucket(w.buckets, bucket, region.ret)
        retried == first \notin {"Created", "BucketAlreadyOwnedByYou",
                                 "BucketAlreadyExists"}
        code == IF retried
                THEN create_bucket(w.buckets, bucket, NoConstraint)
                ELSE first
        name == IF policy = PyNone
                THEN "cloudknot-bucket-access-" \o uuid4(w.uuids + 1)
                ELSE policy
        created == w.calls \o <<Answered("s3.create_bucket", first)>> \o
                   (IF retried
                    THEN <<Answered("s3.create_bucket", code)>> ELSE <<>>)
        probed == IF code = "BucketAlreadyExists"
                  THEN created \o ProbeCalls(bucket, sse) ELSE created
    IN  IF code \notin {"Created", "BucketAlreadyOwnedByYou",
                        "BucketAlreadyExists"}
        THEN Outcome("ClientError", code, [raised EXCEPT !.calls = created])
        ELSE IF code = "BucketAlreadyExists"
                /\ ~test_bucket_put_get(bucket, sse)
        THEN Outcome("CloudknotInputError", PyNone,
                     [raised EXCEPT !.calls = probed])
        ELSE Outcome("ok", PyNone,
               [w EXCEPT
                  !.calls = probed \o
                      <<IF name \in DOMAIN w.policies
                        THEN Refused("iam.create_policy",
                                     "EntityAlreadyExistsException")
                        ELSE "iam.create_policy">>,
                  !.store = [config EXCEPT !["s3-bucket-policy"] = name,
                                           !["s3-sse"] = str(sse)],
                  !.buckets = IF code = "Created"
                              THEN w.buckets \cup {bucket} ELSE w.buckets,
                  !.policies =
                      IF name \in DOMAIN w.policies THEN w.policies
                      ELSE (name :> <<[doc |-> bucket_policy_document(bucket),
                                       IsDefaultVersion |-> TRUE]>>)
                           @@ w.policies,
                  !.uuids = IF policy = PyNone
                            THEN w.uuids + 1 ELSE w.uuids])

\* set_s3_params under rlock: read the config file, set the bucket,
\* create_bucket with LocationConstraint get_region(), the policy name,
\* create_policy, set policy and sse, write the file
set_s3_params_locked(w, ev, files, bucket, policy, sse) ==
    LET config == [w.store EXCEPT !["s3-bucket"] = bucket]
        region == get_region(w.store, ev, files)
        raised == [w EXCEPT !.store = region.store]
        first == create_bucket(w.buckets, bucket, region.ret)
        code == IF first = "InvalidLocationConstraint"
                THEN create_bucket(w.buckets, bucket, NoConstraint)
                ELSE first
        name == IF policy = PyNone
                THEN "cloudknot-bucket-access-" \o uuid4(w.uuids + 1)
                ELSE policy
        created == w.calls \o <<Answered("s3.create_bucket", first)>> \o
                   (IF first = "InvalidLocationConstraint"
                    THEN <<Answered("s3.create_bucket", code)>> ELSE <<>>)
        probed == IF code = "BucketAlreadyExists"
                  THEN created \o ProbeCalls(bucket, sse) ELSE created
    IN  IF code \notin {"Created", "BucketAlreadyOwnedByYou",
                        "BucketAlreadyExists"}
        THEN Outcome("ClientError", code, [raised EXCEPT !.calls = created])
        ELSE IF code = "BucketAlreadyExists"
                /\ ~test_bucket_put_get(bucket, sse)
        THEN Outcome("CloudknotInputError", PyNone,
                     [raised EXCEPT !.calls = probed])
        ELSE Outcome("ok", PyNone,
               [w EXCEPT
                  !.calls = probed \o
                      <<IF name \in DOMAIN w.policies
                        THEN Refused("iam.create_policy",
                                     "EntityAlreadyExistsException")
                        ELSE "iam.create_policy">>,
                  !.store = [config EXCEPT !["s3-bucket-policy"] = name,
                                           !["s3-sse"] = str(sse)],
                  !.buckets = IF code = "Created"
                              THEN w.buckets \cup {bucket} ELSE w.buckets,
                  !.policies =
                      IF name \in DOMAIN w.policies THEN w.policies
                      ELSE (name :> <<[doc |-> bucket_policy_document(bucket),
                                       IsDefaultVersion |-> TRUE]>>)
                           @@ w.policies,
                  !.uuids = IF policy = PyNone
                            THEN w.uuids + 1 ELSE w.uuids])

\* set_s3_params testing sse after the bucket and the policy are made
set_s3_params_LateTest(w, ev, files, bucket, policy, sse) ==
    IF sse # PyNone /\ sse \notin {"AES256", "aws:kms"}
    THEN Outcome("CloudknotInputError", PyNone,
                 [set_s3_params_locked(w, ev, files, bucket, policy,
                                       PyNone).world
                    EXCEPT !.store = w.store])
    ELSE set_s3_params_locked(w, ev, files, bucket, policy, sse)

\* set_s3_params: the sse test, then the section under rlock
set_s3_params(w, ev, files, bucket, policy, sse) ==
    IF sse # PyNone /\ sse \notin {"AES256", "aws:kms"}
    THEN Outcome("CloudknotInputError", PyNone, w)
    ELSE set_s3_params_locked(w, ev, files, bucket, policy, sse)

\* BucketInfo(bucket, policy, sse)
BucketInfo(bucket, policy, sse) ==
    [bucket |-> bucket, policy |-> policy, sse |-> sse]

\* with rlock: policy and bucket from the config file, the bucket else from
\* CLOUDKNOT_S3_BUCKET or generated, update_s3_policy for a new bucket
\* under a stored policy, the stored sse, set_s3_params, and the policy
\* read back
get_s3_params(w, ev, files) ==
    LET policy == IF w.store["s3-bucket-policy"] # Absent
                  THEN w.store["s3-bucket-policy"] ELSE PyNone
        stored == w.store["s3-bucket"] # Absent
        exported == ev["CLOUDKNOT_S3_BUCKET"] # Absent
        bucket == IF stored THEN w.store["s3-bucket"]
                  ELSE IF exported THEN ev["CLOUDKNOT_S3_BUCKET"]
                  ELSE "cloudknot-" \o User \o "-" \o uuid4(w.uuids + 1)
        updated == IF ~stored /\ policy # PyNone
                   THEN update_s3_policy(w.policies, policy, bucket)
                   ELSE [out |-> "ok", policies |-> w.policies,
                         calls |-> <<>>]
        w1 == [w EXCEPT !.uuids = IF stored \/ exported
                                  THEN w.uuids ELSE w.uuids + 1,
                        !.policies = updated.policies,
                        !.calls = w.calls \o updated.calls]
        option == w.store["s3-sse"]
        sse == IF option \in {Absent, "None"} THEN PyNone ELSE option
        set == set_s3_params(w1, ev, files, bucket, policy, sse)
    IN  IF updated.out # "ok"
        THEN Outcome(updated.out, PyNone, w1)
        ELSE IF option \notin {Absent, "AES256", "aws:kms", "None"}
        THEN Outcome("CloudknotInputError", PyNone, w1)
        ELSE IF set.out # "ok"
        THEN Outcome(set.out, set.ret, set.world)
        ELSE Outcome("ok",
                     BucketInfo(bucket,
                                IF policy = PyNone
                                THEN set.world.store["s3-bucket-policy"]
                                ELSE policy,
                                sse),
                     set.world)

\* the uuids one run of the model draws
MaxUuid == 2

\* the call returns, or raises, and leaves world w
Leave(t, op, arg, o) ==
    /\ o.world.uuids <= MaxUuid
    /\ store' = o.world.store
    /\ ecrRepos' = o.world.repos
    /\ s3Buckets' = o.world.buckets
    /\ iamPolicies' = o.world.policies
    /\ uuids' = o.world.uuids
    /\ requests' = o.world.calls
    /\ res' = [res EXCEPT ![t] = Result(op, arg, o.out, o.ret)]
    /\ UNCHANGED <<env, awsFiles, clients, lock, pc, loc, obj>>

\* repository names callers pass to set_ecr_repo
RepoArgs == {"repo1"}
\* the bucket, policy and sse callers pass to set_s3_params
S3Args == {BucketInfo("bucket1", PyNone, PyNone),
           BucketInfo("bucket1", "policy1", "AES256"),
           BucketInfo("bucket1", PyNone, "rot13"),
           BucketInfo("shared-bucket", "policy1", PyNone),
           BucketInfo("private-bucket", PyNone, PyNone),
           BucketInfo("Bad_Name", PyNone, PyNone)}

get_ecr_repo_call(t) ==
    /\ pc[t] = "idle"
    /\ lock = NoOwner
    /\ Leave(t, "get_ecr_repo", PyNone, get_ecr_repo(World, env))

set_ecr_repo_call(t, repo) ==
    /\ pc[t] = "idle"
    /\ lock = NoOwner
    /\ Leave(t, "set_ecr_repo", repo, set_ecr_repo(World, repo))

get_s3_params_call(t) ==
    /\ pc[t] = "idle"
    /\ lock = NoOwner
    /\ Leave(t, "get_s3_params", PyNone, get_s3_params(World, env, awsFiles))

set_s3_params_call(t, bucket, policy, sse) ==
    /\ pc[t] = "idle"
    /\ lock = NoOwner
    /\ Leave(t, "set_s3_params", BucketInfo(bucket, policy, sse),
             set_s3_params(World, env, awsFiles, bucket, policy, sse))

\* get_s3_params reading the config file without entering rlock
get_s3_params_read_Unlocked(t) ==
    /\ pc[t] = "idle"
    /\ loc' = [loc EXCEPT ![t] = [NoLoc EXCEPT !.config = store]]
    /\ pc' = [pc EXCEPT ![t] = "get_s3_params_write"]
    /\ res' = [res EXCEPT ![t] = NoRes]
    /\ UNCHANGED <<store, env, awsFiles, clients, lock, obj, cloud>>

\* get_s3_params as other threads see it: with rlock, config.read
get_s3_params_read(t) ==
    /\ pc[t] = "idle"
    /\ lock = NoOwner
    /\ get_s3_params(World, env, awsFiles).world.uuids <= MaxUuid
    /\ lock' = t
    /\ loc' = [loc EXCEPT ![t] = [NoLoc EXCEPT !.config = store]]
    /\ pc' = [pc EXCEPT ![t] = "get_s3_params_write"]
    /\ res' = [res EXCEPT ![t] = NoRes]
    /\ UNCHANGED <<store, env, awsFiles, clients, obj, cloud>>

\* get_s3_params not releasing rlock when an exception leaves the block
get_s3_params_write_LockedOnError(t) ==
    /\ pc[t] = "get_s3_params_write"
    /\ LET o == get_s3_params([World EXCEPT !.store = loc[t].config],
                              env, awsFiles)
       IN /\ o.world.uuids <= MaxUuid
          /\ store' = IF o.world.store # loc[t].config
                      THEN o.world.store ELSE store
          /\ ecrRepos' = o.world.repos
          /\ s3Buckets' = o.world.buckets
          /\ iamPolicies' = o.world.policies
          /\ uuids' = o.world.uuids
          /\ requests' = o.world.calls
          /\ res' = [res EXCEPT ![t] =
                       Result("get_s3_params", PyNone, o.out, o.ret)]
          /\ lock' = IF o.out = "ok" THEN NoOwner ELSE lock
    /\ pc' = [pc EXCEPT ![t] = "idle"]
    /\ loc' = [loc EXCEPT ![t] = NoLoc]
    /\ UNCHANGED <<env, awsFiles, clients, obj>>

\* the rest of the with block, working from the file as read, and the
\* return or the exception leaving the block
get_s3_params_write(t) ==
    /\ pc[t] = "get_s3_params_write"
    /\ LET o == get_s3_params([World EXCEPT !.store = loc[t].config],
                              env, awsFiles)
       IN /\ o.world.uuids <= MaxUuid
          /\ store' = IF o.world.store # loc[t].config
                      THEN o.world.store ELSE store
          /\ ecrRepos' = o.world.repos
          /\ s3Buckets' = o.world.buckets
          /\ iamPolicies' = o.world.policies
          /\ uuids' = o.world.uuids
          /\ requests' = o.world.calls
          /\ res' = [res EXCEPT ![t] =
                       Result("get_s3_params", PyNone, o.out, o.ret)]
    /\ lock' = NoOwner
    /\ pc' = [pc EXCEPT ![t] = "idle"]
    /\ loc' = [loc EXCEPT ![t] = NoLoc]
    /\ UNCHANGED <<env, awsFiles, clients, obj>>

\* policy and bucket names callers pass to update_s3_policy
UpdateArgs == {"policy0", "policy9"} \X {"bucket0", "bucket1", "bucket2"}

update_s3_policy_call(t, policy, bucket) ==
    /\ pc[t] = "idle"
    /\ lock = NoOwner
    /\ LET u == update_s3_policy(iamPolicies, policy, bucket)
       IN  Leave(t, "update_s3_policy", BucketInfo(bucket, policy, PyNone),
                 Outcome(u.out, PyNone,
                         [World EXCEPT !.policies = u.policies,
                                       !.calls = u.calls]))

----------------------------------------------------------------------------
(* Threads of one process calling into the registry *)

Next ==
    \/ \E t \in Threads, r \in RegionArgs :
          set_region_validate(t, r) /\ UNCHANGED history
    \/ \E t \in Threads : set_region_store(t) /\ UNCHANGED history
    \/ \E t \in Threads : set_region_clients(t) /\ UNCHANGED history
    \/ \E t \in Threads, p \in ProfileArgs :
          set_profile_validate(t, p) /\ UNCHANGED history
    \/ \E t \in Threads : set_profile_store(t) /\ UNCHANGED history
    \/ \E t \in Threads : set_profile_clients(t) /\ UNCHANGED history
    \/ \E t \in Threads, n \in PoolArgs : refresh_clients_session(t, n)
    \/ \E t \in Threads : refresh_clients_clients(t)
    \/ \E t \in Threads : describe_batch(t)
    \/ \E x \in EnvValues("AWS_PROFILE") :
          SetEnv("AWS_PROFILE", x) /\ UNCHANGED history

Spec == Init /\ [][Next]_vars

----------------------------------------------------------------------------
(* One caller using the resolvers and the objects *)

InitSeq == Imported({Absent, "True", "False"})

NextSeq ==
    \/ \E r \in RegionArgs :
          set_region_validate(MainThread, r) /\ UNCHANGED history
    \/ set_region_store(MainThread) /\ UNCHANGED history
    \/ set_region_clients(MainThread) /\ UNCHANGED history
    \/ \E p \in ProfileArgs :
          set_profile_validate(MainThread, p) /\ UNCHANGED history
    \/ set_profile_store(MainThread) /\ UNCHANGED history
    \/ set_profile_clients(MainThread) /\ UNCHANGED history
    \/ get_region_call(MainThread) /\ UNCHANGED history
    \/ \E f \in Fallbacks :
          get_profile_call(MainThread, f) /\ UNCHANGED history
    \/ \E n \in ObjectNames :
          NamedObject_init_configured(MainThread, n) /\ UNCHANGED seen
    \/ NamedObject_init_region(MainThread) /\ UNCHANGED seen
    \/ NamedObject_init_profile(MainThread) /\ UNCHANGED seen
    \/ check_profile(MainThread)
    \/ check_profile_and_region(MainThread)
    \/ check_profile_and_region_profile(MainThread)
    \/ \E v \in {"AWS_PROFILE", "AWS_DEFAULT_REGION"} :
          \E x \in EnvValues(v) : SetEnv(v, x) /\ UNCHANGED history

SpecSeq == InitSeq /\ [][NextSeq]_vars

----------------------------------------------------------------------------
(* One caller waiting for compute environments and job queues; sys.exit    *)
(* ends the process                                                        *)

NextPoll ==
    \/ \E m \in WaitArgs : wait_for_compute_environment(MainThread, m)
    \/ \E r \in DescribeResponses :
          wait_for_compute_environment_poll(MainThread, r)
    \/ \E m \in WaitArgs : wait_for_job_queue(MainThread, m)
    \/ \E r \in DescribeResponses : wait_for_job_queue_poll(MainThread, r)

SpecPoll == Init /\ [][NextPoll]_vars

\* a thread inside a wait loop takes its next turn: the describe call
\* answers and the second of sleep passes
SpecPollFair ==
    /\ SpecPoll
    /\ WF_vars(\E r \in DescribeResponses :
                  wait_for_compute_environment_poll(MainThread, r))
    /\ WF_vars(\E r \in DescribeResponses :
                  wait_for_job_queue_poll(MainThread, r))

----------------------------------------------------------------------------
(* One caller using getters and their setters over a config file left by   *)
(* earlier runs, while the environment variables change                    *)

\* the getters one program works with; get_region and get_profile call
\* each other through the rebuild of the registry
Programs == {{"get_ecr_repo"}, {"get_region", "get_profile"},
             {"get_s3_params"}}

\* the options a getter resolves
OptionsOf(g) ==
    CASE g = "get_region" -> {"region"}
      [] g = "get_profile" -> {"profile"}
      [] g = "get_ecr_repo" -> {"ecr-repo"}
      [] g = "get_s3_params" -> {"s3-bucket", "s3-bucket-policy", "s3-sse"}
\* the options a call of the getter reads: its own, and the region that
\* set_s3_params passes to create_bucket
ReadBy(g) ==
    IF g = "get_s3_params" THEN OptionsOf(g) \cup {"region"} ELSE OptionsOf(g)
\* the environment variables a call of the getter consults
EnvVarsOf(g) ==
    CASE g = "get_region" -> {"AWS_DEFAULT_REGION"}
      [] g = "get_profile" -> {"AWS_PROFILE"}
      [] g = "get_ecr_repo" -> {"CLOUDKNOT_ECR_REPO"}
      [] g = "get_s3_params" -> {"CLOUDKNOT_S3_BUCKET", "AWS_DEFAULT_REGION"}

\* the config file the caller finds: written by earlier runs, edited or
\* removed since
ConfigFiles ==
    {[EmptyStore EXCEPT !["region"] = r, !["profile"] = q,
                        !["ecr-repo"] = e, !["s3-bucket"] = b,
                        !["s3-bucket-policy"] = p, !["s3-sse"] = s] :
        r \in {Absent, "us-west-2"}, q \in {Absent, "p1"},
        e \in {Absent, "repo0"},
        b \in {Absent, "bucket0"}, p \in {Absent, "policy0"},
        s \in {Absent, "aws:kms", "rot13"}}

\* the policy an earlier run created for its bucket
EarlierPolicies ==
    "policy0" :> <<[doc |-> bucket_policy_document("bucket0"),
                    IsDefaultVersion |-> TRUE]>>

InitStore ==
    /\ awsFiles \in AwsFileChoices
    /\ env = NoEnv
    /\ program \in Programs
    /\ store \in {f \in ConfigFiles :
                    \A o \in Options \ UNION {ReadBy(g) : g \in program} :
                        f[o] = Absent}
    /\ clients = ImportedClients(EmptyStore, env, awsFiles)
    /\ lock = NoOwner
    /\ pc = [t \in Threads |-> "idle"]
    /\ loc = [t \in Threads |-> NoLoc]
    /\ res = [t \in Threads |-> NoRes]
    /\ obj = [t \in Threads |-> NoObj]
    /\ ecrRepos = {}
    /\ \/ s3Buckets = {} /\ iamPolicies = NoPolicies
       \/ /\ "get_s3_params" \in program
          /\ s3Buckets = {"bucket0"}
          /\ iamPolicies = EarlierPolicies
    /\ uuids = 0
    /\ requests = <<>>
    /\ pinned = [g \in Getters |-> Unpinned]
    /\ seen = NoPairs

\* the options of getter g in the config file hold the value v
Written(st, g, v) ==
    CASE g = "get_s3_params" ->
            /\ st["s3-bucket"] = v.bucket
            /\ st["s3-bucket-policy"] = v.policy
            /\ st["s3-sse"] = str(v.sse)
      [] OTHER -> \A o \in OptionsOf(g) : st[o] = v

\* the step is a call of getter g: the first call that returns with its
\* value written pins the value and the number of generated names, every
\* later call that returns is recorded
Returns(g) ==
    LET r == res'[MainThread]
    IN  /\ g \in program
        /\ program' = program
        /\ seen' = seen
        /\ pinned' = [pinned EXCEPT ![g] =
              IF r.out # "ok" THEN @
              ELSE IF ~@.set
              THEN IF Written(store', g, r.ret)
                   THEN [set |-> TRUE, first |-> r.ret, last |-> r.ret,
                         names |-> uuids', changed |-> FALSE,
                         later |-> FALSE]
                   ELSE @
              ELSE [@ EXCEPT !.last = r.ret, !.later = @ \/ pinned[g].changed]]

\* the step is a setter of g's options writing the config file
Overwrites(g) ==
    /\ g \in program
    /\ program' = program
    /\ seen' = seen
    /\ pinned' = [pinned EXCEPT ![g] = Unpinned]

\* the step changes an environment variable that g consults
Changes(g) ==
    /\ g \in program
    /\ program' = program
    /\ seen' = seen
    /\ pinned' = [pinned EXCEPT ![g] =
                     IF @.set THEN [@ EXCEPT !.changed = TRUE] ELSE @]

\* any other step of a program working with g
Keeps(g) ==
    /\ g \in program
    /\ UNCHANGED history

NextResolve ==
    \/ get_region_call(MainThread) /\ Returns("get_region")
    \/ \E f \in Fallbacks :
          get_profile_call(MainThread, f) /\ Returns("get_profile")
    \/ get_ecr_repo_call(MainThread) /\ Returns("get_ecr_repo")
    \/ \E r \in RegionArgs :
          set_region_validate(MainThread, r) /\ Keeps("get_region")
    \/ set_region_store(MainThread) /\ Overwrites("get_region")
    \/ set_region_clients(MainThread) /\ Keeps("get_region")
    \/ \E p \in ProfileArgs :
          set_profile_validate(MainThread, p) /\ Keeps("get_profile")
    \/ set_profile_store(MainThread) /\ Overwrites("get_profile")
    \/ set_profile_clients(MainThread) /\ Keeps("get_profile")
    \/ \E r \in RepoArgs :
          set_ecr_repo_call(MainThread, r) /\ Overwrites("get_ecr_repo")
    \/ \E g \in Getters : \E v \in EnvVarsOf(g) : \E x \in EnvValues(v) :
          SetEnv(v, x) /\ Changes(g)

NextStore ==
    \/ NextResolve
    \/ get_s3_params_call(MainThread) /\ Returns("get_s3_params")
    \/ \E a \in S3Args :
          /\ set_s3_params_call(MainThread, a.bucket, a.policy, a.sse)
          /\ IF res'[MainThread].out = "ok"
             THEN Overwrites("get_s3_params") ELSE Keeps("get_s3_params")

SpecStore == InitStore /\ [][NextStore]_vars

\* the caller whose program does not work with the S3 parameters
InitResolve == InitStore /\ "get_s3_params" \notin program

SpecResolve == InitResolve /\ [][NextResolve]_vars

----------------------------------------------------------------------------
(* One caller of set_s3_params naming own, new, foreign and invalid buckets *)

BucketArgs ==
    S3Args \cup {BucketInfo("append-bucket", PyNone, PyNone),
                 BucketInfo("shared-bucket", PyNone, "aws:kms")}

InitBucket == InitStore /\ program = {"get_s3_params"}

NextBucket ==
    \/ \E a \in BucketArgs :
          /\ set_s3_params_call(MainThread, a.bucket, a.policy, a.sse)
          /\ UNCHANGED history
    \/ \E x \in EnvValues("AWS_DEFAULT_REGION") :
          SetEnv("AWS_DEFAULT_REGION", x) /\ UNCHANGED history

SpecBucket == InitBucket /\ [][NextBucket]_vars

----------------------------------------------------------------------------
(* Two threads calling get_s3_params on a config file that names neither   *)
(* a bucket nor a policy                                                   *)

InitParams ==
    /\ InitStore
    /\ program = {"get_s3_params"}
    /\ store["s3-bucket"] = Absent
    /\ store["s3-bucket-policy"] = Absent

NextParams ==
    \/ \E t \in Threads : get_s3_params_read(t) /\ UNCHANGED history
    \/ \E t \in Threads : get_s3_params_write(t) /\ UNCHANGED history
    \/ \E v \in {"CLOUDKNOT_S3_BUCKET", "AWS_DEFAULT_REGION"} :
          \E x \in EnvValues(v) : SetEnv(v, x) /\ UNCHANGED history

SpecParams == InitParams /\ [][NextParams]_vars

----------------------------------------------------------------------------
(* One thread calling get_s3_params, with its nested update_s3_policy,     *)
(* set_s3_params and get_region and their exceptions, while another thread *)
(* calls set_region                                                        *)

InitRelease == InitStore /\ program = {"get_s3_params"}

NextRelease ==
    \/ get_s3_params_read("t1") /\ UNCHANGED history
    \/ get_s3_params_write("t1") /\ UNCHANGED history
    \/ \E r \in RegionArgs : set_region_validate("t2", r) /\ UNCHANGED history
    \/ set_region_store("t2") /\ UNCHANGED history
    \/ set_region_clients("t2") /\ UNCHANGED history

SpecRelease == InitRelease /\ [][NextRelease]_vars

\* the owner of rlock goes on to the end of its with block, and a thread
\* waiting for rlock gets it once it is free often enough
SpecReleaseFair ==
    /\ SpecRelease
    /\ WF_vars(get_s3_params_write("t1") /\ UNCHANGED history)
    /\ WF_vars(set_region_clients("t2") /\ UNCHANGED history)
    /\ SF_vars(set_region_store("t2") /\ UNCHANGED history)

----------------------------------------------------------------------------
(* One caller updating the access policy of an account whose policy has   *)
(* been versioned before                                                   *)

\* the documents of earlier versions, and the lists of versions a policy
\* can have: up to the limit, one of them the default
EarlierDocs == {bucket_policy_document(b) : b \in {"bucket0", "bucket1"}}
VersionLists ==
    UNION {{[i \in 1 .. n |-> [doc |-> docs[i], IsDefaultVersion |-> i = d]] :
               docs \in [1 .. n -> EarlierDocs], d \in 1 .. n} :
           n \in 1 .. VersionLimit}

InitPolicy ==
    /\ awsFiles \in AwsFileChoices
    /\ env = NoEnv
    /\ store = ImportedStore(EmptyStore, env, awsFiles)
    /\ clients = ImportedClients(EmptyStore, env, awsFiles)
    /\ lock = NoOwner
    /\ pc = [t \in Threads |-> "idle"]
    /\ loc = [t \in Threads |-> NoLoc]
    /\ res = [t \in Threads |-> NoRes]
    /\ obj = [t \in Threads |-> NoObj]
    /\ ecrRepos = {}
    /\ s3Buckets = {}
    /\ iamPolicies \in {"policy0" :> v : v \in VersionLists}
    /\ uuids = 0
    /\ requests = <<>>
    /\ program = {}
    /\ pinned = [g \in Getters |-> Unpinned]
    /\ seen = NoPairs

NextPolicy ==
    \E a \in UpdateArgs :
        update_s3_policy_call(MainThread, a[1], a[2]) /\ UNCHANGED history

SpecPolicy == InitPolicy /\ [][NextPolicy]_vars

----------------------------------------------------------------------------
(* One caller constructing objects, checking them, and changing region,    *)
(* profile and pool size                                                   *)

NextObject ==
    \/ \E n \in ObjectNames :
          NamedObject_init_configured(MainThread, n) /\ UNCHANGED seen
    \/ NamedObject_init_region(MainThread) /\ UNCHANGED seen
    \/ NamedObject_init_profile(MainThread) /\ UNCHANGED seen
    \/ \E m \in MemoryArgs :
          ObjectWithUsernameAndMemory_init(MainThread, m, "cloudknot-user")
    \/ check_profile(MainThread)
    \/ check_profile_and_region(MainThread)
    \/ check_profile_and_region_profile(MainThread)
    \/ \E r \in RegionArgs :
          set_region_validate(MainThread, r) /\ UNCHANGED history
    \/ set_region_store(MainThread) /\ UNCHANGED history
    \/ set_region_clients(MainThread) /\ UNCHANGED history
    \/ \E p \in ProfileArgs :
          set_profile_validate(MainThread, p) /\ UNCHANGED history
    \/ set_profile_store(MainThread) /\ UNCHANGED history
    \/ set_profile_clients(MainThread) /\ UNCHANGED history
    \/ \E n \in PoolArgs : refresh_clients_session(MainThread, n)
    \/ refresh_clients_clients(MainThread)

SpecObject == InitSeq /\ [][NextObject]_vars

----------------------------------------------------------------------------
(* One thread constructing an object while another one sets region and     *)
(* profile                                                                 *)

\* the region and the profile the resolvers return for config file st
ResolverPair(st) ==
    <<get_region(st, env, awsFiles).ret,
      get_profile(st, env, awsFiles, "from-env").ret>>

\* the thread is inside NamedObject.__init__, past the configured test
Constructing(p) == p \in {"NamedObject_region", "NamedObject_profile"}

\* the step is recorded for every thread that is constructing an object
\* before or after it
Sees ==
    /\ UNCHANGED getters
    /\ seen' = [t \in Threads |->
                  IF Constructing(pc[t]) \/ Constructing(pc'[t])
                  THEN (IF Constructing(pc[t]) THEN seen[t] ELSE {})
                       \cup {ResolverPair(store), ResolverPair(store')}
                  ELSE seen[t]]

NextSnapshot ==
    \/ \E n \in ObjectNames :
          NamedObject_init_configured(MainThread, n) /\ Sees
    \/ NamedObject_init_region(MainThread) /\ Sees
    \/ NamedObject_init_profile(MainThread) /\ Sees
    \/ \E t \in Threads \ {MainThread}, r \in RegionArgs :
          set_region_validate(t, r) /\ Sees
    \/ \E t \in Threads \ {MainThread} : set_region_store(t) /\ Sees
    \/ \E t \in Threads \ {MainThread} : set_region_clients(t) /\ Sees
    \/ \E t \in Threads \ {MainThread}, p \in ProfileArgs :
          set_profile_validate(t, p) /\ Sees
    \/ \E t \in Threads \ {MainThread} : set_profile_store(t) /\ Sees
    \/ \E t \in Threads \ {MainThread} : set_profile_clients(t) /\ Sees

SpecSnapshot == InitSeq /\ [][NextSnapshot]_vars

----------------------------------------------------------------------------
(* Properties of the registry *)

\* the profile a session opened now is bound to
StoredProfile(st) == IF st["profile"] = Absent THEN PyNone ELSE st["profile"]

BoundTo(c, region, profile) ==
    \A s \in Services : c[s].region = region /\ c[s].profile = profile

Completes(t, op) == res'[t] # res[t] /\ res'[t].op = op

\* C1: after set_region, set_profile and refresh_clients calls, whenever none
\* of them is in progress, every entry of the registry is bound to the region
\* and the profile in the config file; a set_region that returns has rebuilt
\* every entry with its region and the current profile, a set_profile with
\* its profile and the current region.
C1_RegistryFollowsStore ==
    /\ []((\A t \in Threads : pc[t] = "idle")
            => BoundTo(clients, store["region"], StoredProfile(store)))
    /\ [][\A t \in Threads :
            /\ (Completes(t, "set_region") /\ res'[t].out = "ok")
                 => BoundTo(clients', res'[t].arg, StoredProfile(store))
            /\ (Completes(t, "set_profile") /\ res'[t].out = "ok")
                 => BoundTo(clients', store["region"], res'[t].arg)]_vars

C1_Witness ==
    /\ \A t \in Threads : pc[t] = "idle"
    /\ res["t1"].op = "set_region" /\ res["t1"].out = "ok"
    /\ res["t2"].op = "set_profile" /\ res["t2"].out = "ok"
    /\ clients["s3"].region = "us-east-1" /\ clients["s3"].profile = "default"

\* C2: a thread that reads the registry while another thread runs set_region,
\* set_profile or refresh_clients never finds some entries bound to one
\* region/profile and others to another.
C2_ReaderSeesOneBinding ==
    [][\A t \in Threads :
         Completes(t, "describe")
           => \A s \in Services :
                 /\ clients[s].region = res'[t].ret.region
                 /\ clients[s].profile = res'[t].ret.profile]_vars

\* C5: set_profile with a name that is in neither provider file fails with
\* CloudknotInputError and changes neither the config file nor the registry.
C5_UnknownProfileRejected ==
    [][\A t \in Threads :
         (Completes(t, "set_profile")
            /\ res'[t].arg \notin list_profiles(awsFiles))
           => /\ res'[t].out = "CloudknotInputError"
              /\ store' = store
              /\ clients' = clients]_vars

C5_Witness ==
    /\ res["t1"].op = "set_profile" /\ res["t1"].arg = "default"
    /\ res["t1"].out = "CloudknotInputError"
    /\ res["t2"].op = "set_profile" /\ res["t2"].arg = "p1"
    /\ res["t2"].out = "ok"

\* C6: set_region succeeds exactly when its argument is one of the region
\* names describe_regions returns; otherwise it fails with
\* CloudknotInputError and changes neither the stored region nor the registry.
C6_RegionValidated ==
    [][\A t \in Threads :
         Completes(t, "set_region")
           => IF res'[t].arg \in RegionNames
              THEN res'[t].out = "ok" /\ store'["region"] = res'[t].arg
              ELSE /\ res'[t].out = "CloudknotInputError"
                   /\ store'["region"] = store["region"]
                   /\ clients' = clients]_vars

C6_Witness ==
    /\ res["t1"].op = "set_region" /\ res["t1"].arg = "mars-1"
    /\ res["t1"].out = "CloudknotInputError"
    /\ res["t2"].op = "set_region" /\ res["t2"].arg = "us-east-1"
    /\ res["t2"].out = "ok"

----------------------------------------------------------------------------
(* Properties of the resolvers and the objects, one caller *)

\* what get_profile() returns for the config file st once it has run
CurrentProfile(st) == IF st["profile"] = Absent THEN "from-env" ELSE st["profile"]

\* C3: get_region() called right after a successful set_region(r) returns r,
\* whatever AWS_DEFAULT_REGION and the provider's default config hold.
C3_GetAfterSetRegion ==
    [][\A t \in Threads :
         (Completes(t, "get_region")
            /\ res[t].op = "set_region" /\ res[t].out = "ok")
           => res'[t].ret = res[t].arg]_vars

C3_Witness ==
    /\ res[MainThread].op = "get_region"
    /\ res[MainThread].ret = "us-east-1"
    /\ env["AWS_DEFAULT_REGION"] = "us-west-2"
    /\ awsFiles.region = "eu-west-1"

\* C7: constructing a NamedObject fails with CloudknotConfigurationError and
\* creates no object when the configured option is absent or not True;
\* otherwise it succeeds with clobbered false and with the region and the
\* profile that get_region() and get_profile() return at that moment.
C7_ConstructionGuard ==
    [][\A t \in Threads :
         Completes(t, "NamedObject")
           => IF store["configured"] # "True"
              THEN /\ res'[t].out = "CloudknotConfigurationError"
                   /\ obj' = obj
              ELSE /\ res'[t].out = "ok"
                   /\ obj'[t].name = res'[t].arg
                   /\ obj'[t].clobbered = FALSE
                   /\ obj'[t].region = store'["region"]
                   /\ obj'[t].profile = CurrentProfile(store')]_vars

C7_Witness ==
    /\ res[MainThread].op = "NamedObject" /\ res[MainThread].out = "ok"
    /\ obj[MainThread].region = "us-east-1"
    /\ obj[MainThread].profile = "from-env"

\* C8: check_profile_and_region raises RegionException whenever the current
\* region differs from the object's, ProfileException when the regions agree
\* and the profiles differ, and nothing when both agree; check_profile raises
\* ProfileException exactly when the profiles differ.
C8_Checks ==
    [][\A t \in Threads :
         /\ Completes(t, "check_profile_and_region")
              => res'[t].out =
                   IF obj[t].region # store'["region"] THEN "RegionException"
                   ELSE IF obj[t].profile # CurrentProfile(store')
                        THEN "ProfileException" ELSE "ok"
         /\ Completes(t, "check_profile")
              => res'[t].out =
                   IF obj[t].profile # CurrentProfile(store')
                   THEN "ProfileException" ELSE "ok"]_vars

C8_Witness ==
    /\ res[MainThread].op = "check_profile_and_region"
    /\ res[MainThread].out = "RegionException"
    /\ obj[MainThread].profile # CurrentProfile(store)

----------------------------------------------------------------------------
(* Properties of the wait loops *)

WaitOps == {"wait_for_compute_environment", "wait_for_job_queue"}

Settled(response) ==
    response # <<>> /\ response[1] \notin {"CREATING", "UPDATING"}

\* C9: a wait returns normally at the first poll whose response is non-empty
\* with a status other than CREATING and UPDATING, after exactly that many
\* polls; an empty response or one of these two statuses keeps it polling.
C9_ReturnsAtFirstSettledPoll ==
    \A t \in Threads :
       /\ res[t].op \in WaitOps
            => LET h == res[t].ret.responses
               IN /\ Settled(h[Len(h)]) => res[t].out = "ok"
                  /\ res[t].out = "ok"
                       => /\ Settled(h[Len(h)])
                          /\ res[t].ret.polls = Len(h)
                          /\ \A i \in 1 .. Len(h) - 1 : ~Settled(h[i])
       /\ pc[t] \in WaitOps
            => \A i \in 1 .. Len(loc[t].responses) : ~Settled(loc[t].responses[i])

\* C11: the process is aborted only while the resource is still waiting: a
\* wait whose most recent poll observed a settled status (non-empty, not
\* CREATING or UPDATING) has returned normally, for every max_wait_time
\* and every sequence of responses.
C11_AbortOnlyWhileWaiting ==
    \A t \in Threads :
       res[t].op \in WaitOps
         => LET h == res[t].ret.responses
            IN  res[t].out = "SystemExit" => ~Settled(h[Len(h)])

AllCreating(h) == \A i \in 1 .. Len(h) : h[i] = <<"CREATING">>

\* C10 as claimed: when every response is CREATING, a wait called with
\* max_wait_time = m aborts the process after exactly m polls.
C10_AbortsAfterMaxPolls ==
    \A t \in Threads :
       (res[t].op \in WaitOps /\ AllCreating(res[t].ret.responses))
         => /\ res[t].out = "SystemExit"
            /\ res[t].ret.polls = res[t].arg

\* C10 as amended: when every response is CREATING, a wait called with
\* max_wait_time = m aborts the process after exactly m + 1 polls, and not
\* before.
C10_AbortsAfterMaxPlusOnePolls ==
    \A t \in Threads :
       /\ (res[t].op \in WaitOps /\ AllCreating(res[t].ret.responses))
            => /\ res[t].out = "SystemExit"
               /\ res[t].ret.polls = res[t].arg + 1
               /\ Len(res[t].ret.responses) = res[t].arg + 1
       /\ (pc[t] \in WaitOps /\ AllCreating(loc[t].responses))
            => loc[t].num_waits <= loc[t].max_wait_time

C10_Witness ==
    /\ res[MainThread].op = "wait_for_job_queue"
    /\ res[MainThread].out = "SystemExit"
    /\ res[MainThread].arg = 2
    /\ res[MainThread].ret.responses =
          <<(<<"CREATING">>), (<<"CREATING">>), (<<"CREATING">>)>>

----------------------------------------------------------------------------
(* Properties of the getters *)

\* C4: once a call of get_region, get_profile, get_ecr_repo or
\* get_s3_params has returned with its value written to the config file,
\* every later call of that getter returns the same value (for
\* get_s3_params the same bucket, policy and sse, and no name has been
\* generated since), whatever the environment variables have become, until
\* a setter overwrites the value.
C4_ResolutionIdempotent ==
    \A g \in Getters :
        pinned[g].set =>
            /\ pinned[g].last = pinned[g].first
            /\ g = "get_s3_params" => uuids = pinned[g].names

\* get_s3_params generated the bucket name, CLOUDKNOT_S3_BUCKET was set
\* afterwards, and a later call has returned
C4_Witness ==
    /\ pinned["get_s3_params"].set
    /\ pinned["get_s3_params"].later
    /\ pinned["get_s3_params"].names > 0
    /\ pinned["get_s3_params"].first.bucket
          \notin {"bucket0", "env-bucket"} \cup {a.bucket : a \in S3Args}
    /\ env["CLOUDKNOT_S3_BUCKET"] = "env-bucket"
    /\ res[MainThread].op = "get_s3_params"
    /\ res[MainThread].out = "ok"

----------------------------------------------------------------------------
(* Properties of the access policy *)

\* the positions of a in a list of requests
Sent(log, a) == {i \in 1 .. Len(log) : log[i] = a}

\* the versions with none of them the default
Demoted(versions) ==
    [i \in 1 .. Len(versions) |->
        [versions[i] EXCEPT !.IsDefaultVersion = FALSE]]

\* C12: when create_policy_version is refused with LimitExceeded,
\* update_s3_policy deletes exactly one version, the non-default version
\* created earliest, and creates the new default version only after that
\* deletion; the default version is never deleted; when the limit is not
\* hit no version is deleted.
C12_RotatesOldestNonDefault ==
    [][\A p \in DOMAIN iamPolicies :
          LET old == iamPolicies[p]
              new == iamPolicies'[p]
              log == requests'
              kept == SubSeq(new, 1, Len(new) - 1)
          IN  new # old =>
                /\ new[Len(new)].IsDefaultVersion
                /\ new[Len(new)].doc =
                      bucket_policy_document(res'[MainThread].arg.bucket)
                /\ IF Len(old) < VersionLimit
                   THEN /\ kept = Demoted(old)
                        /\ Sent(log, "iam.delete_policy_version") = {}
                   ELSE /\ \E k \in 1 .. Len(old) :
                            /\ ~old[k].IsDefaultVersion
                            /\ \A j \in 1 .. k - 1 : old[j].IsDefaultVersion
                            /\ kept = Demoted(delete_policy_version(old, k))
                        /\ \E i \in 1 .. Len(log) :
                            /\ Sent(log, "iam.delete_policy_version") = {i}
                            /\ Sent(log, "iam.create_policy_version") = {i + 1}
    ]_vars

\* the policy was at the limit, a version was deleted and the new default
\* version references the new bucket
C12_Witness ==
    /\ res[MainThread].op = "update_s3_policy"
    /\ res[MainThread].out = "ok"
    /\ Sent(requests, "iam.delete_policy_version") # {}
    /\ Len(iamPolicies["policy0"]) = VersionLimit
    /\ iamPolicies["policy0"][VersionLimit] =
          [doc |-> bucket_policy_document("bucket2"),
           IsDefaultVersion |-> TRUE]

\* the documents of the default version of a policy
DefaultDocs(versions) ==
    {versions[i].doc : i \in {j \in 1 .. Len(versions) :
                                 versions[j].IsDefaultVersion}}

\* C13: after a successful set_s3_params or get_s3_params, also one that
\* names an existing policy together with a bucket the policy does not
\* reference, the default document of the stored policy references the
\* stored bucket.
C13_PolicyReferencesBucket ==
    \A t \in Threads :
        (res[t].op \in {"set_s3_params", "get_s3_params"}
         /\ res[t].out = "ok")
          => /\ store["s3-bucket-policy"] \in DOMAIN iamPolicies
             /\ DefaultDocs(iamPolicies[store["s3-bucket-policy"]]) =
                   {bucket_policy_document(store["s3-bucket"])}

\* the services' state
Remote == <<ecrRepos, s3Buckets, iamPolicies>>

\* C14: set_s3_params with an sse that is neither None nor AES256 nor
\* aws:kms fails with CloudknotInputError before any request to S3 or IAM
\* is sent, and writes neither the config file nor the services' state.
C14_SseTestedFirst ==
    /\ [](\A t \in Threads :
            (res[t].op = "set_s3_params"
             /\ res[t].arg.sse \notin {PyNone, "AES256", "aws:kms"})
              => /\ res[t].out = "CloudknotInputError"
                 /\ requests = <<>>)
    /\ [][\A t \in Threads :
            (res'[t].op = "set_s3_params"
             /\ res'[t].arg.sse \notin {PyNone, "AES256", "aws:kms"})
              => /\ store' = store
                 /\ Remote' = Remote
                 /\ uuids' = uuids]_vars

\* set_s3_params was called with sse rot13 after an earlier call had sent
\* requests, and raised
C14_Witness ==
    /\ res[MainThread].op = "set_s3_params"
    /\ res[MainThread].arg.sse = "rot13"
    /\ res[MainThread].out = "CloudknotInputError"
    /\ requests = <<>>
    /\ store["s3-bucket"] \notin {Absent, res[MainThread].arg.bucket}
    /\ s3Buckets # {}

\* C15: after a successful set_s3_params(b, p, s), get_s3_params() returns
\* bucket b, policy p and sse s, None staying None; when p is None the
\* policy name generated by the setter is the one stored, and every
\* get_s3_params() that follows returns the same without generating a name.
C15_S3RoundTrip ==
    [][\A t \in Threads :
          (res[t].out = "ok" /\ res'[t].op = "get_s3_params") =>
              /\ res[t].op = "set_s3_params" =>
                    /\ res'[t].out = "ok"
                    /\ res'[t].ret.bucket = res[t].arg.bucket
                    /\ res'[t].ret.sse = res[t].arg.sse
                    /\ res'[t].ret.policy =
                          IF res[t].arg.policy = PyNone
                          THEN store["s3-bucket-policy"]
                          ELSE res[t].arg.policy
                    /\ uuids' = uuids
              /\ res[t].op = "get_s3_params" =>
                    /\ res'[t] = res[t]
                    /\ uuids' = uuids]_vars

\* get_s3_params returned bucket1, which only set_s3_params stores, with a
\* generated policy name and sse None
C15_Witness ==
    /\ res[MainThread].op = "get_s3_params"
    /\ res[MainThread].out = "ok"
    /\ res[MainThread].ret.bucket = "bucket1"
    /\ res[MainThread].ret.policy \notin {"policy0", "policy1"}
    /\ res[MainThread].ret.policy = store["s3-bucket-policy"]
    /\ res[MainThread].ret.sse = PyNone
    /\ store["s3-sse"] = "None"

----------------------------------------------------------------------------
(* Properties of the resolvers *)

\* the step is a call by t of the getter or setter op that runs in one step
Calls(t, op) ==
    /\ pc[t] = "idle"
    /\ pc'[t] = "idle"
    /\ env' = env
    /\ res'[t].op = op

\* the first of the values that is present
FirstOf(values) ==
    values[CHOOSE i \in 1 .. Len(values) :
              /\ values[i] # Absent
              /\ \A j \in 1 .. i - 1 : values[j] = Absent]

\* C16: get_region() returns the first available of the stored region,
\* AWS_DEFAULT_REGION, the region of the provider's default config and
\* us-east-1; when the value did not come from the store, the stored
\* region equals the returned value on return, and when it came from the
\* store the config file is not written.
C16_RegionChain ==
    [][\A t \in Threads :
          Calls(t, "get_region") =>
              /\ res'[t].out = "ok"
              /\ res'[t].ret =
                    FirstOf(<<store["region"], env["AWS_DEFAULT_REGION"],
                              awsFiles.region, "us-east-1">>)
              /\ IF store["region"] = Absent
                 THEN store' = [store EXCEPT !["region"] = res'[t].ret]
                 ELSE store' = store]_vars

\* get_region() returned the region of the provider's config file and the
\* config file now holds it
C16_Witness ==
    /\ res[MainThread].op = "get_region"
    /\ res[MainThread].ret = "eu-west-1"
    /\ store["region"] = "eu-west-1"
    /\ awsFiles.region = "eu-west-1"
    /\ env["AWS_DEFAULT_REGION"] = Absent

----------------------------------------------------------------------------
(* Two threads in the getters and setters of region and profile *)

NextLock ==
    \/ \E t \in Threads, r \in RegionArgs :
          set_region_validate(t, r) /\ UNCHANGED history
    \/ \E t \in Threads : set_region_store(t) /\ UNCHANGED history
    \/ \E t \in Threads : set_region_clients(t) /\ UNCHANGED history
    \/ \E t \in Threads, p \in ProfileArgs :
          set_profile_validate(t, p) /\ UNCHANGED history
    \/ \E t \in Threads : set_profile_store(t) /\ UNCHANGED history
    \/ \E t \in Threads : set_profile_clients(t) /\ UNCHANGED history
    \/ \E t \in Threads, f \in Fallbacks :
          get_profile_read(t, f) /\ UNCHANGED history
    \/ \E t \in Threads : get_profile_write(t) /\ UNCHANGED history
    \/ \E t \in Threads : get_region_read(t) /\ UNCHANGED history
    \/ \E t \in Threads : get_region_write(t) /\ UNCHANGED history
    \/ \E x \in EnvValues("AWS_PROFILE") :
          SetEnv("AWS_PROFILE", x) /\ UNCHANGED history

SpecLock == Init /\ [][NextLock]_vars

\* 'default' when it is a profile name of the provider's files
DiscoverableDefault ==
    IF "default" \in list_profiles(awsFiles) THEN "default" ELSE Absent

\* the value get_profile(fallback) is to return
ProfileChain(fallback) ==
    FirstOf(<<store["profile"], env["AWS_PROFILE"], DiscoverableDefault,
              fallback>>)

\* C17 as claimed: get_profile(fallback) returns the first available of the
\* stored profile, AWS_PROFILE, 'default' if it is a discoverable profile
\* name, and the fallback; whichever source yields the value, the stored
\* profile equals the returned value on return.
C17_ProfilePersisted ==
    [][\A t \in Threads :
          Calls(t, "get_profile") =>
              /\ res'[t].ret = ProfileChain(res'[t].arg)
              /\ store'["profile"] = res'[t].ret]_vars

\* C17 as amended: get_profile(fallback) returns the first available of the
\* chain; a value from AWS_PROFILE or the discoverable 'default' is written
\* to the config file, a value from the store leaves the file as it is, and
\* the fallback is returned without being written: the file is unchanged
\* and still holds no profile.
C17_ProfilePersistedUnlessFallback ==
    [][\A t \in Threads :
          Calls(t, "get_profile") =>
              /\ res'[t].out = "ok"
              /\ res'[t].ret = ProfileChain(res'[t].arg)
              /\ IF store["profile"] = Absent /\ env["AWS_PROFILE"] = Absent
                    /\ DiscoverableDefault = Absent
                 THEN store' = store
                 ELSE store' = [store EXCEPT !["profile"] = res'[t].ret]]_vars

\* get_profile() returned its fallback and the config file holds no profile
C17_Witness ==
    /\ res[MainThread].op = "get_profile"
    /\ res[MainThread].arg = "from-env"
    /\ res[MainThread].ret = "from-env"
    /\ store["profile"] = Absent
    /\ env["AWS_PROFILE"] = Absent

\* C18: after set_ecr_repo(n) the stored ecr-repo is n and repository n
\* exists; create_repository is requested exactly when n did not exist; in
\* a state a set_ecr_repo(n) left (n stored, n existing), set_ecr_repo(n)
\* and get_ecr_repo request no create and leave the config file and the
\* remote state as they are, get_ecr_repo returning n.
C18_EcrRepoEnsuredOnce ==
    [][\A t \in Threads :
          /\ Calls(t, "set_ecr_repo") =>
                LET n == res'[t].arg
                IN  /\ res'[t].out = "ok"
                    /\ store' = [store EXCEPT !["ecr-repo"] = n]
                    /\ ecrRepos' = ecrRepos \cup {n}
                    /\ Sent(requests', "ecr.create_repository") # {}
                          <=> n \notin ecrRepos
                    /\ UNCHANGED <<s3Buckets, iamPolicies>>
          /\ /\ Calls(t, "set_ecr_repo") \/ Calls(t, "get_ecr_repo")
             /\ res[t].op = "set_ecr_repo"
             /\ Calls(t, "set_ecr_repo") => res'[t].arg = res[t].arg
             => /\ Sent(requests', "ecr.create_repository") = {}
                /\ store' = store
                /\ Remote' = Remote
                /\ Calls(t, "get_ecr_repo") => res'[t].ret = res[t].arg]_vars

\* set_ecr_repo('repo1') was repeated: the second call found the repository
C18_Witness ==
    /\ res[MainThread].op = "set_ecr_repo"
    /\ res[MainThread].arg = "repo1"
    /\ requests = <<"ecr.describe_repositories">>
    /\ store["ecr-repo"] = "repo1"
    /\ "repo1" \in ecrRepos

\* the step is taken by thread t alone
ActsAlone(t) ==
    \A u \in Threads \ {t} :
        pc'[u] = pc[u] /\ loc'[u] = loc[u] /\ res'[u] = res[u]

\* thread t is between its read of the config file and its write
Reading(t) == pc[t] \in {"get_region_write", "get_profile_write"}

\* C19: a thread that has read the config file holds rlock until its write,
\* and the file is still what it read; every step that writes the config
\* file or replaces a registry entry is taken by one thread that holds
\* rlock or takes it in that step, no other thread holding it, so that no
\* write of another thread falls between a read and its dependent write.
C19_StoreAndRegistryUnderLock ==
    /\ [](\A t \in Threads :
             Reading(t) => lock = t /\ loc[t].config = store)
    /\ [][(store' # store \/ clients' # clients) =>
             \E t \in Threads :
                 /\ ActsAlone(t)
                 /\ lock \in {NoOwner, t}
                 /\ lock = t \/ lock' = t]_vars

\* t1 has read a config file without a profile and AWS_PROFILE is set, so
\* it will write; t2 has validated its set_profile argument and waits for
\* rlock to write the profile
C19_Witness ==
    /\ pc["t1"] = "get_profile_write"
    /\ loc["t1"].config["profile"] = Absent
    /\ env["AWS_PROFILE"] # Absent
    /\ pc["t2"] = "set_profile_store"
    /\ lock = "t1"

\* the documents of all versions of all policies
AllDocs(policies) ==
    UNION {{policies[p][i].doc : i \in 1 .. Len(policies[p])} :
              p \in DOMAIN policies}

MemoryArg(r) == CHOOSE m \in MemoryArgs : m.repr = r.arg

\* C21: constructing an ObjectWithUsernameAndMemory succeeds, with the
\* memory stored as given, exactly when memory is an integer >= 1; every
\* other value (an integer < 1, a float, a str, None) makes it fail with
\* CloudknotInputError.
C21_MemoryValidated ==
    [][\A t \in Threads :
          Completes(t, "ObjectWithUsernameAndMemory") =>
              LET m == MemoryArg(res'[t])
              IN  IF m.type = "int" /\ m.trunc >= 1
                  THEN /\ res'[t].out = "ok"
                       /\ obj'[t].memory = m.trunc
                  ELSE /\ res'[t].out = "CloudknotInputError"
                       /\ obj'[t] = NoObj]_vars

\* the step ends a constructor call of thread t
Constructs(t) ==
    \/ pc[t] = "NamedObject_profile" /\ pc'[t] = "idle"
    \/ Completes(t, "ObjectWithUsernameAndMemory") /\ res'[t].out # "ok"

\* C22: an object's name, region and profile keep their construction-time
\* values through every later set_region, set_profile, refresh_clients,
\* check_profile and check_profile_and_region step, also when the check
\* raises; only constructing an object anew replaces them.
C22_ObjectFieldsFrozen ==
    [][\A t \in Threads :
          obj[t] # NoObj /\ ~Constructs(t) =>
              /\ obj'[t].name = obj[t].name
              /\ obj'[t].region = obj[t].region
              /\ obj'[t].profile = obj[t].profile]_vars

\* check_profile_and_region raised RegionException after set_region moved
\* the store away from the object's region
C22_Witness ==
    /\ res[MainThread].op = "check_profile_and_region"
    /\ res[MainThread].out = "RegionException"
    /\ obj[MainThread].name = "ce"
    /\ obj[MainThread].region # store["region"]
    /\ \A s \in Services : clients[s].region = store["region"]

\* the s3 options of the config file
S3Options(st) == <<st["s3-bucket"], st["s3-bucket-policy"], st["s3-sse"]>>

\* the log holds a request, answered or refused, to the operation
Attempted(log, operation) ==
    \E i \in 1 .. Len(log) :
        log[i] = operation \/ \E c \in {"AccessDenied"} :
                                 log[i] = Refused(operation, c)

\* C23: when create_bucket answers BucketAlreadyExists, the put+get probe
\* runs; for a bucket the account cannot put to and get from,
\* set_s3_params raises CloudknotInputError, sends no create_policy and
\* leaves policies and the stored s3 options as they were; for a bucket it
\* can use, delete_object is attempted, refused or not, and the call
\* returns having written bucket, policy and sse.
C23_ForeignBucketProbed ==
    [][\A t \in Threads :
          (/\ Completes(t, "set_s3_params")
           /\ Sent(requests', Refused("s3.create_bucket",
                                      "BucketAlreadyExists")) # {})
            => LET a == res'[t].arg
               IN  /\ Attempted(requests', "s3.put_object")
                   /\ IF a.bucket \in AccessibleBuckets
                      THEN /\ res'[t].out = "ok"
                           /\ Attempted(requests', "s3.delete_object")
                           /\ store'["s3-bucket"] = a.bucket
                           /\ store'["s3-bucket-policy"] # Absent
                           /\ a.policy # PyNone =>
                                 store'["s3-bucket-policy"] = a.policy
                           /\ store'["s3-sse"] = str(a.sse)
                      ELSE /\ res'[t].out = "CloudknotInputError"
                           /\ ~Attempted(requests', "s3.delete_object")
                           /\ Sent(requests', "iam.create_policy") = {}
                           /\ iamPolicies' = iamPolicies
                           /\ S3Options(store') = S3Options(store)]_vars

\* the probe of append-bucket succeeded, the delete of the test key was
\* refused, and the parameters were written
C23_Witness ==
    /\ res[MainThread].op = "set_s3_params"
    /\ res[MainThread].out = "ok"
    /\ Sent(requests, Refused("s3.delete_object", "AccessDenied")) # {}
    /\ store["s3-bucket"] = "append-bucket"

\* the positions of the create_bucket requests in the log
CreateBucketRequests(log) ==
    {i \in 1 .. Len(log) :
        \/ log[i] = "s3.create_bucket"
        \/ \E c \in {"InvalidBucketName", "InvalidLocationConstraint",
                     "BucketAlreadyOwnedByYou", "BucketAlreadyExists"} :
              log[i] = Refused("s3.create_bucket", c)}

\* C24: set_s3_params sends create_bucket at most twice, the second time
\* only directly after the first was refused for its location constraint;
\* any other client error of create_bucket reaches the caller as it is,
\* with no further create_bucket, no create_policy, and with buckets,
\* policies and the stored s3 options as before.
C24_CreateBucketRetriedOnce ==
    [][\A t \in Threads :
          Completes(t, "set_s3_params") =>
              LET log == requests'
                  sent == CreateBucketRequests(log)
              IN  /\ sent \subseteq {1, 2}
                  /\ 2 \in sent =>
                        log[1] = Refused("s3.create_bucket",
                                         "InvalidLocationConstraint")
                  /\ \A i \in sent :
                        log[i] = Refused("s3.create_bucket",
                                         "InvalidBucketName")
                          => /\ i = 1
                             /\ Len(log) = 1
                             /\ res'[t].out = "ClientError"
                             /\ res'[t].ret = "InvalidBucketName"
                             /\ s3Buckets' = s3Buckets
                             /\ iamPolicies' = iamPolicies
                             /\ S3Options(store') = S3Options(store)]_vars

\* the first create_bucket was refused for its location constraint, the
\* second one, without constraint, made the bucket
C24_Witness ==
    /\ res[MainThread].op = "set_s3_params"
    /\ res[MainThread].out = "ok"
    /\ Len(requests) >= 2
    /\ requests[1] = Refused("s3.create_bucket", "InvalidLocationConstraint")
    /\ requests[2] = "s3.create_bucket"
    /\ "bucket1" \in s3Buckets

C26_SnapshotIsOnePair ==
    \A t \in Threads :
        (res[t].op = "NamedObject" /\ res[t].out = "ok")
          => <<obj[t].region, obj[t].profile>> \in seen[t]

\* thread t's get_s3_params returned
Got(t) == res[t].op = "get_s3_params" /\ res[t].out = "ok"

\* C27: when two threads call get_s3_params on a config file without bucket
\* and policy, the calls that return return the same bucket and the same
\* policy; the names are generated once and written, and a call that finds
\* them in the file generates none and returns what the file holds.
C27_OneBucketOnePolicy ==
    /\ [](\A t, u \in Threads :
             Got(t) /\ Got(u) =>
                 /\ res[t].ret.bucket = res[u].ret.bucket
                 /\ res[t].ret.policy = res[u].ret.policy)
    /\ [](\A t \in Threads :
             Got(t) => /\ store["s3-bucket"] = res[t].ret.bucket
                       /\ store["s3-bucket-policy"] = res[t].ret.policy
                       /\ res[t].ret.policy \in DOMAIN iamPolicies)
    /\ [][\A t \in Threads :
             (/\ pc[t] = "get_s3_params_write"
              /\ res'[t].out = "ok"
              /\ store["s3-bucket"] # Absent)
               => /\ uuids' = uuids
                  /\ store'["s3-bucket"] = store["s3-bucket"]
                  /\ store'["s3-bucket-policy"] = store["s3-bucket-policy"]
                  /\ DOMAIN iamPolicies' = DOMAIN iamPolicies]_vars

\* both threads returned; t2 had read the file after t1 wrote the
\* generated names
C27_Witness ==
    /\ Got("t1")
    /\ Got("t2")
    /\ uuids = 2
    /\ requests[Len(requests)] =
          Refused("iam.create_policy", "EntityAlreadyExistsException")
    /\ res["t2"].ret.bucket = "cloudknot-user-uuid1"
    /\ res["t2"].ret.policy = "cloudknot-bucket-access-uuid2"

\* the step leaves every option outside own that the config file held
KeepsOptionsBut(own) ==
    \A o \in Options \ own : store[o] # Absent => store'[o] = store[o]

\* C28: a setter changes only its own options of the config file:
\* set_s3_params only s3-bucket, s3-bucket-policy and s3-sse, set_ecr_repo
\* only ecr-repo, set_region only region, set_profile only profile; every
\* other option the file held before, and the region the get_region()
\* inside set_s3_params wrote, is in the file with that value afterwards.
C28_SettersKeepOtherOptions ==
    [][\A t \in Threads :
          /\ Completes(t, "set_s3_params") =>
                /\ KeepsOptionsBut({"s3-bucket", "s3-bucket-policy", "s3-sse"})
                /\ requests' # <<>> =>
                      store'["region"] = get_region(store, env, awsFiles).ret
          /\ Completes(t, "set_ecr_repo") => KeepsOptionsBut({"ecr-repo"})
          /\ pc[t] \in {"set_region_store", "set_region_clients"} =>
                KeepsOptionsBut({"region"})
          /\ pc[t] \in {"set_profile_store", "set_profile_clients"} =>
                KeepsOptionsBut({"profile"})]_vars

\* the places of a call inside a with rlock block
Locked ==
    {"get_s3_params_write", "get_region_write", "get_profile_write",
     "set_region_clients", "set_profile_clients", "refresh_clients"}

C30_OnePoolSize ==
    /\ [](\A s, r \in Services : clients[s].pool = clients[r].pool)
    /\ [][\A t \in Threads :
             /\ Completes(t, "refresh_clients") =>
                   \A s \in Services : clients'[s].pool = res'[t].arg
             /\ (Completes(t, "set_region") \/ Completes(t, "set_profile"))
                /\ res'[t].out = "ok" =>
                   \A s \in Services : clients'[s].pool = loc[t].pool]_vars

====
